---- MODULE Spec2Model ----
(***************************************************************************)
(* Model of the provider indexer: the syntax-tree recognizers, the         *)
(* per-package aggregation, the parallel scan pipeline                     *)
(* (ScanTerraformProviderServices) and the parallel emission pipeline      *)
(* (WriteIndexFiles / processCallbacksParallel), with the progress         *)
(* tracker both pipelines share.                                           *)
(*                                                                         *)
(* Go maps are functions over a finite set of strings, Go slices are       *)
(* sequences, a nil pointer is the empty sequence << >> and a non-nil      *)
(* pointer to v is << v >>.                                                *)
(***************************************************************************)
EXTENDS Integers, Sequences, FiniteSets, TLC

\* ------------------------------------------------------------------ bounds
\* Largest number of package directories under the scanned root.
MaxDirs == 2
\* Largest value runtime.NumCPU() takes.
MaxCPU == 2
\* Largest number of file-system operations that fail during one emission.
MaxFailures == 2

\* Largest number of packages in an index handed to the emission.
MaxServices == 1

\* ------------------------------------------------------------- Go helpers
EmptyMap == [k \in {} |-> ""]

\* Buggy variant of MapPut: a key already present keeps its value.
MapPutKeepFirst(m, k, v) == [x \in (DOMAIN m) \cup {k} |-> IF x \in DOMAIN m THEN m[x] ELSE v]

MapPut(m, k, v) == [x \in (DOMAIN m) \cup {k} |-> IF x = k THEN v ELSE m[x]]

\* m[k] of a map[string]string: the zero value "" when k is absent.
MapGet(m, k) == IF k \in DOMAIN m THEN m[k] ELSE ""

\* Buggy variants of mergeMap: the first map wins on a shared key.
mergeMapFirstWins(m1, m2) ==
    [k \in (DOMAIN m1) \cup (DOMAIN m2) |-> IF k \in DOMAIN m1 THEN m1[k] ELSE m2[k]]

\* mergeMap: a fresh map holding m1 overwritten by m2.
mergeMap(m1, m2) ==
    [k \in (DOMAIN m1) \cup (DOMAIN m2) |-> IF k \in DOMAIN m2 THEN m2[k] ELSE m1[k]]

\* fmt.Sprintf("func.%s.goindex", name)
FuncIndex(name) == "func." \o name \o ".goindex"

\* fmt.Sprintf("method.%s.<Method>.goindex", structType)
MethodIndex(structType, method) == "method." \o structType \o "." \o method \o ".goindex"

\* fmt.Sprintf("%s.json", terraformType)
JsonName(terraformType) == terraformType \o ".json"

\* All orders in which a range over a Go map can visit the keys of S.
RECURSIVE Perms(_)
Perms(S) ==
    IF S = {} THEN { << >> }
    ELSE UNION { { <<k>> \o p : p \in Perms(S \ {k}) } : k \in S }

\* ---------------------------------------------------------- syntax trees
\* Every expression node has the same four fields; x holds the single
\* operand of the node (callee, selector base, literal type, key, operand).
Ident(n)        == [kind |-> "ident",    name |-> n,  x |-> << >>,  elts |-> << >>]
Selector(b, n)  == [kind |-> "selector", name |-> n,  x |-> <<Ident(b)>>, elts |-> << >>]
\* A quoted string literal "s": BasicLit of Kind STRING whose Value is "s" in quotes.
StringLit(s)    == [kind |-> "string",   name |-> s,  x |-> << >>,  elts |-> << >>]
Call(f)         == [kind |-> "call",     name |-> "", x |-> <<f>>,  elts |-> << >>]
OtherType(n)    == [kind |-> "type",     name |-> n,  x |-> << >>,  elts |-> << >>]
Star(t)         == [kind |-> "star",     name |-> "", x |-> <<t>>,  elts |-> << >>]
CompositeLit(t, es) == [kind |-> "complit", name |-> "", x |-> <<t>>, elts |-> es]
KeyValue(k, v)  == [kind |-> "kv",       name |-> "", x |-> <<k>>,  elts |-> <<v>>]
AddrOf(e)       == [kind |-> "addr",     name |-> "", x |-> <<e>>,  elts |-> << >>]

\* Statements of a function body (bodies are flat: no nested blocks).
ReturnStmt(results) == [kind |-> "return", lhs |-> << >>, rhs |-> results]
AssignStmt(l, r)    == [kind |-> "assign", lhs |-> l,     rhs |-> r]

\* A function or method declaration; recv is << >> for a plain function.
FuncDecl(n, recv, results, body) ==
    [name |-> n, recv |-> recv, results |-> results, body |-> body]

\* One gophon.FileInfo: File is nil when nilAST.
FileInfo(pkgPath, nilAST, decls) == [package |-> pkgPath, nilAST |-> nilAST, decls |-> decls]

\* One gophon.FunctionInfo; decl is << >> when FuncDecl is nil.
FunctionInfo(n, decl) == [name |-> n, decl |-> decl]

\* strings.Trim(lit.Value, `"`) of a quoted literal: the text between the quotes.
TrimQuotes(lit) == lit.name

IsStringLit(e) == e.kind = "string"

\* ----------------------------------------------------- shape recognizers
\* Left-to-right concatenation of f(s[1]), f(s[2]), ...
RECURSIVE FlatMap(_, _)
FlatMap(f(_), s) == IF s = << >> THEN << >> ELSE f(Head(s)) \o FlatMap(f, Tail(s))

\* extractFromMapLiteral: "key": fn() pairs of a map literal; a later pair
\* with the same key overwrites the earlier one.
RECURSIVE extractFromMapLiteralFrom(_, _, _)
extractFromMapLiteralFrom(elts, i, mappings) ==
    IF i > Len(elts) THEN mappings
    ELSE LET elt == elts[i] IN
         IF elt.kind # "kv" THEN extractFromMapLiteralFrom(elts, i + 1, mappings)
         ELSE LET keyE  == elt.x[1]
                  valE  == elt.elts[1]
                  key   == IF IsStringLit(keyE) THEN TrimQuotes(keyE) ELSE ""
                  value == IF valE.kind = "call" /\ valE.x[1].kind = "ident"
                           THEN valE.x[1].name ELSE ""
              IN IF valE.kind # "call" THEN extractFromMapLiteralFrom(elts, i + 1, mappings)
                 ELSE IF key # "" /\ value # ""
                      THEN extractFromMapLiteralFrom(elts, i + 1, MapPut(mappings, key, value))
                      ELSE extractFromMapLiteralFrom(elts, i + 1, mappings)

extractFromMapLiteral(mapLit) == extractFromMapLiteralFrom(mapLit.elts, 1, EmptyMap)

\* extractFromSliceLiteral: the type names of the StructName{} elements, in order.
SliceElementType(elt) ==
    IF elt.kind = "complit" /\ elt.x[1].kind = "ident" THEN <<elt.x[1].name>> ELSE << >>

extractFromSliceLiteral(sliceLit) == FlatMap(SliceElementType, sliceLit.elts)

\* extractFromFunctionSliceLiteral: the bare identifiers of a slice literal, in order.
SliceElementFunc(elt) == IF elt.kind = "ident" THEN <<elt.name>> ELSE << >>

extractFromFunctionSliceLiteral(sliceLit) == FlatMap(SliceElementFunc, sliceLit.elts)

\* The lhs loop over one assignment statement when looking for the variable
\* `name`: the loop stops at the first left-hand side that is not that
\* identifier, and at a left-hand side that has no right-hand side.
RECURSIVE AssignedLitsIn(_, _, _)
AssignedLitsIn(stmt, name, i) ==
    IF i > Len(stmt.lhs) THEN << >>
    ELSE IF stmt.lhs[i].kind # "ident" \/ stmt.lhs[i].name # name THEN << >>
    ELSE IF i > Len(stmt.rhs) THEN << >>
    ELSE (IF stmt.rhs[i].kind = "complit" THEN <<stmt.rhs[i]>> ELSE << >>)
         \o AssignedLitsIn(stmt, name, i + 1)

\* The inner ast.Inspect over the body for assignments to `name`.
AssignedLits(body, name) ==
    LET OfStmt(stmt) == IF stmt.kind = "assign" THEN AssignedLitsIn(stmt, name, 1) ELSE << >>
    IN FlatMap(OfStmt, body)

\* Buggy variant of ReturnedLits: only literals returned directly are seen.
ReturnedLitsDirectOnly(body) ==
    LET OfResult(result) == IF result.kind = "complit" THEN <<result>> ELSE << >>
        OfStmt(stmt) == IF stmt.kind = "return" THEN FlatMap(OfResult, stmt.rhs) ELSE << >>
    IN FlatMap(OfStmt, body)

\* The composite literals a method hands back, in the order the walk meets
\* them: for every return statement and every result, the result itself when
\* it is a literal, or the literals assigned to it when it is an identifier.
ReturnedLits(body) ==
    LET OfResult(result) ==
            IF result.kind = "complit" THEN <<result>>
            ELSE IF result.kind = "ident" THEN AssignedLits(body, result.name)
            ELSE << >>
        OfStmt(stmt) == IF stmt.kind = "return" THEN FlatMap(OfResult, stmt.rhs) ELSE << >>
    IN FlatMap(OfStmt, body)

\* The literals returned by every declaration called methodName in the file.
MethodLits(file, methodName) ==
    LET OfDecl(fn) == IF fn.name = methodName THEN ReturnedLits(fn.body) ELSE << >>
    IN FlatMap(OfDecl, file.decls)

RECURSIVE MergeLits(_, _)
MergeLits(lits, mappings) ==
    IF lits = << >> THEN mappings
    ELSE MergeLits(Tail(lits), mergeMap(mappings, extractFromMapLiteral(Head(lits))))

extractMappingsFromMethod(file, methodName) == MergeLits(MethodLits(file, methodName), EmptyMap)

extractStructTypesFromMethod(file, methodName) ==
    FlatMap(extractFromSliceLiteral, MethodLits(file, methodName))

extractFunctionNamesFromMethod(file, methodName) ==
    FlatMap(extractFromFunctionSliceLiteral, MethodLits(file, methodName))

extractSupportedResourcesMappings(file)   == extractMappingsFromMethod(file, "SupportedResources")
extractSupportedDataSourcesMappings(file) == extractMappingsFromMethod(file, "SupportedDataSources")
extractResourcesStructTypes(file)         == extractStructTypesFromMethod(file, "Resources")
extractDataSourcesStructTypes(file)       == extractStructTypesFromMethod(file, "DataSources")
extractEphemeralResourcesFunctions(file)  == extractFunctionNamesFromMethod(file, "EphemeralResources")

\* ----------------------------------------------------------- type resolver
\* Buggy variant of ReceiverTypeName: a pointer receiver is not looked through.
ReceiverTypeNameValueOnly(fn) ==
    IF fn.recv = << >> THEN ""
    ELSE IF fn.recv[1].kind = "ident" THEN fn.recv[1].name ELSE ""

\* The receiver's type name, through a pointer or not; "" for any other shape.
ReceiverTypeName(fn) ==
    IF fn.recv = << >> THEN ""
    ELSE LET t == fn.recv[1] IN
         IF t.kind = "star" THEN (IF t.x[1].kind = "ident" THEN t.x[1].name ELSE "")
         ELSE IF t.kind = "ident" THEN t.name
         ELSE ""

\* extractStringReturnValue: the first return statement whose first result is
\* a string literal.
RECURSIVE extractStringReturnValueFrom(_, _)
extractStringReturnValueFrom(body, i) ==
    IF i > Len(body) THEN ""
    ELSE IF body[i].kind = "return" /\ Len(body[i].rhs) > 0 /\ IsStringLit(body[i].rhs[1])
         THEN TrimQuotes(body[i].rhs[1])
         ELSE extractStringReturnValueFrom(body, i + 1)

extractStringReturnValue(fn) == extractStringReturnValueFrom(fn.body, 1)

\* extractTypeNameFromMetadataMethod: the first `<x>.TypeName = "..."`.
RECURSIVE extractTypeNameFrom(_, _)
extractTypeNameFrom(body, i) ==
    IF i > Len(body) THEN ""
    ELSE LET st == body[i] IN
         IF /\ st.kind = "assign" /\ Len(st.lhs) > 0 /\ Len(st.rhs) > 0
            /\ st.lhs[1].kind = "selector" /\ st.lhs[1].name = "TypeName"
            /\ IsStringLit(st.rhs[1])
         THEN TrimQuotes(st.rhs[1])
         ELSE extractTypeNameFrom(body, i + 1)

extractTypeNameFromMetadataMethod(fn) == extractTypeNameFrom(fn.body, 1)

\* The walk over one file: every declaration of the lifecycle method on the
\* struct sets `result` (returning false only prunes that declaration's
\* subtree), so the last one in the file decides.
RECURSIVE TypeInFile(_, _, _, _, _, _)
TypeInFile(decls, i, methodName, structName, Extract(_), result) ==
    IF i > Len(decls) THEN result
    ELSE LET fn == decls[i] IN
         IF fn.name = methodName /\ fn.recv # << >> /\ ReceiverTypeName(fn) = structName
         THEN TypeInFile(decls, i + 1, methodName, structName, Extract, Extract(fn))
         ELSE TypeInFile(decls, i + 1, methodName, structName, Extract, result)

\* The loop over the package's files: the first file with a non-empty result.
RECURSIVE TypeInFiles(_, _, _, _, _)
TypeInFiles(Extract(_), files, i, methodName, structName) ==
    IF i > Len(files) THEN ""
    ELSE IF files[i].nilAST THEN TypeInFiles(Extract, files, i + 1, methodName, structName)
    ELSE LET result == TypeInFile(files[i].decls, 1, methodName, structName, Extract, "")
         IN IF result # "" THEN result
            ELSE TypeInFiles(Extract, files, i + 1, methodName, structName)

extractTerraformTypeFromResourceTypeMethod(packageInfo, structName) ==
    TypeInFiles(extractStringReturnValue, packageInfo.files, 1, "ResourceType", structName)

extractTerraformTypeFromMetadataMethod(packageInfo, structName) ==
    TypeInFiles(extractTypeNameFromMetadataMethod, packageInfo.files, 1, "Metadata", structName)

\* The struct -> Terraform type map of one category: structs that resolve to
\* "" get no entry.
RECURSIVE TerraformTypesFrom(_, _, _, _)
TerraformTypesFrom(packageInfo, structs, Resolve(_, _), terraformTypes) ==
    IF structs = << >> THEN terraformTypes
    ELSE LET terraformType == Resolve(packageInfo, Head(structs)) IN
         TerraformTypesFrom(packageInfo, Tail(structs), Resolve,
             IF terraformType # "" THEN MapPut(terraformTypes, Head(structs), terraformType)
             ELSE terraformTypes)

extractResourceTerraformTypes(packageInfo, resourceStructs) ==
    TerraformTypesFrom(packageInfo, resourceStructs,
                       extractTerraformTypeFromResourceTypeMethod, EmptyMap)

extractDataSourceTerraformTypes(packageInfo, dataSourceStructs) ==
    TerraformTypesFrom(packageInfo, dataSourceStructs,
                       extractTerraformTypeFromResourceTypeMethod, EmptyMap)

extractEphemeralTerraformTypes(packageInfo, ephemeralStructs) ==
    TerraformTypesFrom(packageInfo, ephemeralStructs,
                       extractTerraformTypeFromMetadataMethod, EmptyMap)

\* ----------------------------------------------------------- CRUD resolver
NoCRUD == [CreateMethod |-> "", ReadMethod |-> "", UpdateMethod |-> "", DeleteMethod |-> ""]

\* extractFunctionReference: a bare identifier, or the trailing name of a
\* package-qualified one; "" for any other expression.
extractFunctionReference(expr) ==
    IF expr.kind = "ident" THEN expr.name
    ELSE IF expr.kind = "selector" THEN expr.name
    ELSE ""

\* Buggy variant of SetCRUDField: the WithoutTimeout spellings are not known.
SetCRUDFieldNoWithoutTimeout(methods, fieldName, funcName) ==
    IF fieldName \in {"Create", "CreateContext", "CreateFunc"}
        THEN [methods EXCEPT !.CreateMethod = funcName]
    ELSE IF fieldName \in {"Read", "ReadContext", "ReadFunc"}
        THEN [methods EXCEPT !.ReadMethod = funcName]
    ELSE IF fieldName \in {"Update", "UpdateContext", "UpdateFunc"}
        THEN [methods EXCEPT !.UpdateMethod = funcName]
    ELSE IF fieldName \in {"Delete", "DeleteContext", "DeleteFunc"}
        THEN [methods EXCEPT !.DeleteMethod = funcName]
    ELSE methods

\* The switch of extractFromResourceLiteral on one field name.
SetCRUDField(methods, fieldName, funcName) ==
    IF fieldName \in {"Create", "CreateContext", "CreateFunc", "CreateWithoutTimeout"}
        THEN [methods EXCEPT !.CreateMethod = funcName]
    ELSE IF fieldName \in {"Read", "ReadContext", "ReadFunc", "ReadWithoutTimeout"}
        THEN [methods EXCEPT !.ReadMethod = funcName]
    ELSE IF fieldName \in {"Update", "UpdateContext", "UpdateFunc", "UpdateWithoutTimeout"}
        THEN [methods EXCEPT !.UpdateMethod = funcName]
    ELSE IF fieldName \in {"Delete", "DeleteContext", "DeleteFunc", "DeleteWithoutTimeout"}
        THEN [methods EXCEPT !.DeleteMethod = funcName]
    ELSE methods

\* The switch of extractFromDataSourceLiteral on one field name.
SetDataSourceField(methods, fieldName, funcName) ==
    IF fieldName \in {"Read", "ReadContext", "ReadFunc", "ReadWithoutTimeout"}
        THEN [methods EXCEPT !.ReadMethod = funcName]
    ELSE methods

\* The loop over the key/value elements of a configuration literal, shared by
\* extractFromResourceLiteral and extractFromDataSourceLiteral.
RECURSIVE LiteralFields(_, _, _, _)
LiteralFields(Set(_, _, _), elts, i, methods) ==
    IF i > Len(elts) THEN methods
    ELSE LET elt == elts[i] IN
         IF elt.kind # "kv" THEN LiteralFields(Set, elts, i + 1, methods)
         ELSE LET fieldName == IF elt.x[1].kind = "ident" THEN elt.x[1].name ELSE ""
                  funcName  == extractFunctionReference(elt.elts[1])
              IN IF funcName = "" THEN LiteralFields(Set, elts, i + 1, methods)
                 ELSE LiteralFields(Set, elts, i + 1, Set(methods, fieldName, funcName))

extractFromResourceLiteral(compLit, methods) ==
    LiteralFields(SetCRUDField, compLit.elts, 1, methods)

extractFromDataSourceLiteral(compLit, methods) ==
    LiteralFields(SetDataSourceField, compLit.elts, 1, methods)

\* The loop over the expressions of one return or assignment statement: it
\* stops at the first expression that is not &X, and reads X when X is a
\* composite literal.
RECURSIVE AddrLitsIn(_, _, _, _)
AddrLitsIn(Extract(_, _), exprs, i, methods) ==
    IF i > Len(exprs) THEN methods
    ELSE IF exprs[i].kind # "addr" THEN methods
    ELSE AddrLitsIn(Extract, exprs, i + 1,
                    IF exprs[i].x[1].kind = "complit"
                    THEN Extract(exprs[i].x[1], methods) ELSE methods)

\* One ast.Inspect pass over the body for the statements of one kind.
RECURSIVE AddrLitsPass(_, _, _, _, _)
AddrLitsPass(Extract(_, _), body, i, stmtKind, methods) ==
    IF i > Len(body) THEN methods
    ELSE AddrLitsPass(Extract, body, i + 1, stmtKind,
                      IF body[i].kind = stmtKind
                      THEN AddrLitsIn(Extract, body[i].rhs, 1, methods) ELSE methods)

\* extractCRUDFromFunction: the returns first, then the assignments.
extractCRUDFromFunction(fn) ==
    AddrLitsPass(extractFromResourceLiteral, fn.body, 1, "assign",
        AddrLitsPass(extractFromResourceLiteral, fn.body, 1, "return", NoCRUD))

\* extractDataSourceMethodsFromFunction
extractDataSourceMethodsFromFunction(fn) ==
    AddrLitsPass(extractFromDataSourceLiteral, fn.body, 1, "assign",
        AddrLitsPass(extractFromDataSourceLiteral, fn.body, 1, "return", [ReadMethod |-> ""]))

\* The first function of the package's function list with the registration
\* method's name and a declaration; << >> (nil) when there is none.
RECURSIVE FindFunction(_, _, _)
FindFunction(functions, i, registrationMethod) ==
    IF i > Len(functions) THEN << >>
    ELSE IF functions[i].name = registrationMethod /\ functions[i].decl # << >>
         THEN functions[i].decl
         ELSE FindFunction(functions, i + 1, registrationMethod)

extractCRUDFromPackage(registrationMethod, packageInfo) ==
    LET fn == FindFunction(packageInfo.functions, 1, registrationMethod)
    IN IF fn = << >> THEN << >> ELSE <<extractCRUDFromFunction(fn[1])>>

extractDataSourceMethodsFromPackage(registrationMethod, packageInfo) ==
    LET fn == FindFunction(packageInfo.functions, 1, registrationMethod)
    IN IF fn = << >> THEN << >> ELSE <<extractDataSourceMethodsFromFunction(fn[1])>>

\* ------------------------------------------------------ package aggregator
newServiceRegistration(packageInfo, entryName) ==
    [ ServiceName              |-> entryName,
      PackagePath              |-> packageInfo.files[1].package,
      SupportedResources       |-> EmptyMap,
      SupportedDataSources     |-> EmptyMap,
      Resources                |-> << >>,
      DataSources              |-> << >>,
      EphemeralResources       |-> << >>,
      ResourceCRUDMethods      |-> EmptyMap,
      DataSourceMethods        |-> EmptyMap,
      ResourceTerraformTypes   |-> EmptyMap,
      DataSourceTerraformTypes |-> EmptyMap,
      EphemeralTerraformTypes  |-> EmptyMap ]

\* The loop over the package's files: all five recognizers run on every file
\* with a syntax tree and their results are merged into the registration.
RECURSIVE MergeFiles(_, _, _)
MergeFiles(files, i, serviceReg) ==
    IF i > Len(files) THEN serviceReg
    ELSE IF files[i].nilAST THEN MergeFiles(files, i + 1, serviceReg)
    ELSE MergeFiles(files, i + 1,
        [serviceReg EXCEPT
            !.SupportedResources   = mergeMap(@, extractSupportedResourcesMappings(files[i])),
            !.SupportedDataSources = mergeMap(@, extractSupportedDataSourcesMappings(files[i])),
            !.Resources            = @ \o extractResourcesStructTypes(files[i]),
            !.DataSources          = @ \o extractDataSourcesStructTypes(files[i]),
            !.EphemeralResources   = @ \o extractEphemeralResourcesFunctions(files[i])])

\* The lifecycle-method map of one legacy table: keys whose registration
\* function resolves to nil get no entry.
ResolveMethods(Resolve(_, _), table, packageInfo) ==
    LET found == { t \in DOMAIN table : Resolve(table[t], packageInfo) # << >> }
    IN [t \in found |-> Resolve(table[t], packageInfo)[1]]

\* The registration a worker builds for one scanned package (the body of the
\* worker loop between the skip test and the push).
BuildServiceRegistration(packageInfo, entryName) ==
    LET merged == MergeFiles(packageInfo.files, 1, newServiceRegistration(packageInfo, entryName))
    IN [merged EXCEPT
          !.ResourceTerraformTypes   = extractResourceTerraformTypes(packageInfo, merged.Resources),
          !.DataSourceTerraformTypes = extractDataSourceTerraformTypes(packageInfo, merged.DataSources),
          !.EphemeralTerraformTypes  = extractEphemeralTerraformTypes(packageInfo, merged.EphemeralResources),
          !.ResourceCRUDMethods      = ResolveMethods(extractCRUDFromPackage,
                                                      merged.SupportedResources, packageInfo),
          !.DataSourceMethods        = ResolveMethods(extractDataSourceMethodsFromPackage,
                                                      merged.SupportedDataSources, packageInfo)]

\* Buggy variant of HasRegistrations: every scanned package is kept.
HasRegistrationsAlways(serviceReg) == TRUE

\* "Only include services that have at least one registration method".
HasRegistrations(serviceReg) ==
    \/ Cardinality(DOMAIN serviceReg.SupportedResources) > 0
    \/ Cardinality(DOMAIN serviceReg.SupportedDataSources) > 0
    \/ Len(serviceReg.Resources) > 0
    \/ Len(serviceReg.DataSources) > 0
    \/ Len(serviceReg.EphemeralResources) > 0

\* The skip test on what the syntax provider returned.
Unscannable(scanned) == scanned.err \/ scanned.nilPkg \/ Len(scanned.info.files) = 0

\* ------------------------------------------------- the scanned source tree
\* What gophon.ScanSinglePackage hands back for one directory.
Scanned(err, nilPkg, files, functions) ==
    [err |-> err, nilPkg |-> nilPkg, info |-> [files |-> files, functions |-> functions]]

ResourcePtr == Star(Selector("pluginsdk", "Resource"))
ResourceLit(fields) == AddrOf(CompositeLit(Selector("pluginsdk", "Resource"), fields))
TableType  == OtherType("map[string]*pluginsdk.Resource")
ListType   == OtherType("[]sdk.Resource")
Table(pairs) == CompositeLit(TableType, pairs)
Entry(key, fn) == KeyValue(StringLit(key), Call(Ident(fn)))
Field(name, value) == KeyValue(Ident(name), value)

\* func makeA() *pluginsdk.Resource { return &pluginsdk.Resource{Create: aCreate, Read: aRead, Schema: ...} }
DeclMakeA ==
    FuncDecl("makeA", << >>, <<ResourcePtr>>,
        << ReturnStmt(<< ResourceLit(<< Field("Create", Ident("aCreate")),
                                        Field("Read", Ident("aRead")),
                                        Field("Schema", CompositeLit(OtherType("map[string]*pluginsdk.Schema"), << >>)) >>) >>) >>)

\* func makeB() *pluginsdk.Resource { r := &pluginsdk.Resource{...all four...}; return r }
DeclMakeB ==
    FuncDecl("makeB", << >>, <<ResourcePtr>>,
        << AssignStmt(<<Ident("r")>>,
                      << ResourceLit(<< Field("CreateContext", Ident("bCreate")),
                                        Field("ReadContext", Ident("bRead")),
                                        Field("UpdateFunc", Selector("impl", "bUpdate")),
                                        Field("DeleteWithoutTimeout", Ident("bDelete")) >>) >>),
           ReturnStmt(<<Ident("r")>>) >>)

\* func dsD() *pluginsdk.Resource { return &pluginsdk.Resource{Read: dRead} }
DeclDsD ==
    FuncDecl("dsD", << >>, <<ResourcePtr>>,
        << ReturnStmt(<< ResourceLit(<< Field("Read", Ident("dRead")) >>) >>) >>)

\* func makeM() *pluginsdk.Resource { return &pluginsdk.Resource{Create: mCreate, Read: mRead, Delete: mDelete} }
DeclMakeM ==
    FuncDecl("makeM", << >>, <<ResourcePtr>>,
        << ReturnStmt(<< ResourceLit(<< Field("Create", Ident("mCreate")),
                                        Field("Read", Ident("mRead")),
                                        Field("Delete", Ident("mDelete")) >>) >>) >>)

\* A package with only legacy tables: two resources returned directly, one
\* data source returned through a variable.
PkgLegacy ==
    LET decls == <<
            FuncDecl("SupportedResources", <<Ident("Registration")>>, <<TableType>>,
                << ReturnStmt(<< Table(<< Entry("x_a", "makeA"), Entry("x_b", "makeB") >>) >>) >>),
            FuncDecl("SupportedDataSources", <<Ident("Registration")>>, <<TableType>>,
                << AssignStmt(<<Ident("dataSources")>>, << Table(<< Entry("x_d", "dsD") >>) >>),
                   ReturnStmt(<<Ident("dataSources")>>) >>),
            DeclMakeA, DeclMakeB, DeclDsD >>
    IN Scanned(FALSE, FALSE, << FileInfo("svc/legacy", FALSE, decls) >>,
               << FunctionInfo("makeA", <<DeclMakeA>>), FunctionInfo("makeB", <<DeclMakeB>>),
                  FunctionInfo("dsD", <<DeclDsD>>) >>)

\* A package with only modern lists, over two files: FooResource resolves to
\* x_foo (value receiver), BarResource has no ResourceType method, the data
\* source resolves through a pointer receiver, the ephemeral constructor
\* resolves to nothing.
PkgModern ==
    LET regDecls == <<
            FuncDecl("Resources", <<Ident("Registration")>>, <<ListType>>,
                << ReturnStmt(<< CompositeLit(ListType,
                       << CompositeLit(Ident("FooResource"), << >>),
                          CompositeLit(Ident("BarResource"), << >>) >>) >>) >>),
            FuncDecl("DataSources", <<Ident("Registration")>>, <<OtherType("[]sdk.DataSource")>>,
                << ReturnStmt(<< CompositeLit(OtherType("[]sdk.DataSource"),
                       << CompositeLit(Ident("FooDataSource"), << >>) >>) >>) >>),
            FuncDecl("EphemeralResources", <<Ident("Registration")>>, <<OtherType("[]func() ephemeral.EphemeralResource")>>,
                << ReturnStmt(<< CompositeLit(OtherType("[]func() ephemeral.EphemeralResource"),
                       << Ident("NewEph") >>) >>) >>) >>
        implDecls == <<
            FuncDecl("ResourceType", <<Ident("FooResource")>>, <<Ident("string")>>,
                << ReturnStmt(<<StringLit("x_foo")>>) >>),
            FuncDecl("ResourceType", <<Star(Ident("FooDataSource"))>>, <<Ident("string")>>,
                << ReturnStmt(<<StringLit("x_foo_ds")>>) >>),
            FuncDecl("Metadata", <<Star(Ident("EphResource"))>>, << >>,
                << AssignStmt(<<Selector("resp", "TypeName")>>, <<StringLit("x_eph")>>) >>) >>
    IN Scanned(FALSE, FALSE,
               << FileInfo("svc/modern", FALSE, regDecls), FileInfo("svc/modern", FALSE, implDecls) >>,
               << >>)

\* A package in transition: x_m is a key of the legacy table and also the
\* resolved identifier of the modern list entry MResource.
PkgMixed ==
    LET decls == <<
            FuncDecl("SupportedResources", <<Ident("Registration")>>, <<TableType>>,
                << ReturnStmt(<< Table(<< Entry("x_m", "makeM") >>) >>) >>),
            FuncDecl("Resources", <<Ident("Registration")>>, <<ListType>>,
                << ReturnStmt(<< CompositeLit(ListType,
                       << CompositeLit(Ident("MResource"), << >>) >>) >>) >>),
            FuncDecl("ResourceType", <<Ident("MResource")>>, <<Ident("string")>>,
                << ReturnStmt(<<StringLit("x_m")>>) >>),
            DeclMakeM >>
    IN Scanned(FALSE, FALSE, << FileInfo("svc/mixed", FALSE, decls) >>,
               << FunctionInfo("makeM", <<DeclMakeM>>) >>)

\* A package whose legacy data source is registered through a function that
\* is not in the package's function list.
PkgOrphan ==
    LET decls == <<
            FuncDecl("SupportedDataSources", <<Ident("Registration")>>, <<TableType>>,
                << ReturnStmt(<< Table(<< Entry("x_o", "dsElsewhere") >>) >>) >>) >>
    IN Scanned(FALSE, FALSE, << FileInfo("svc/orphan", FALSE, decls) >>, << >>)

\* A readable package in which no recognizer finds anything: a helper
\* function in one file and a file without a syntax tree.
PkgNoMatch ==
    LET decls == <<
            FuncDecl("helper", << >>, <<Ident("string")>>, << ReturnStmt(<<StringLit("x_h")>>) >>),
            FuncDecl("resources", << >>, <<TableType>>,
                << ReturnStmt(<< Table(<< KeyValue(StringLit("x_n"), Ident("makeN")) >>) >>) >>) >>
    IN Scanned(FALSE, FALSE,
               << FileInfo("svc/nomatch", FALSE, decls), FileInfo("svc/nomatch", TRUE, << >>) >>,
               << >>)

\* Directories the syntax provider cannot turn into a package.
PkgError == Scanned(TRUE, FALSE, << >>, << >>)
PkgNil   == Scanned(FALSE, TRUE, << >>, << >>)
PkgEmpty == Scanned(FALSE, FALSE, << >>, << >>)

\* The directory names a scanned root is drawn from, in the order os.ReadDir
\* lists them (sorted by name).
DirNames == << "empty", "err", "legacy", "modern", "nil", "nomatch" >>

\* The packages an emitted index is drawn from.
IndexedNames == << "legacy", "mixed", "modern", "orphan" >>

\* gophon.ScanSinglePackage on the directory of that name.
ScanSinglePackage(name) ==
    CASE name = "empty"   -> PkgEmpty
      [] name = "err"     -> PkgError
      [] name = "legacy"  -> PkgLegacy
      [] name = "mixed"   -> PkgMixed
      [] name = "modern"  -> PkgModern
      [] name = "nil"     -> PkgNil
      [] name = "nomatch" -> PkgNoMatch
      [] name = "orphan"  -> PkgOrphan

\* The subsequence of DirNames whose names are in S.
RECURSIVE SortedDirs(_, _)
SortedDirs(S, i) ==
    IF i > Len(DirNames) THEN << >>
    ELSE (IF DirNames[i] \in S THEN <<DirNames[i]>> ELSE << >>) \o SortedDirs(S, i + 1)

Range(s) == { s[i] : i \in DOMAIN s }

\* ---------------------------------------------------------- entity records
\* NewTerraformResourceInfo
NewTerraformResourceInfo(terraformType, structType, registrationMethod, sdkType, serviceReg) ==
    IF sdkType = "legacy_pluginsdk"
    THEN LET result ==
                 [TerraformType      |-> terraformType,
                  StructType         |-> "",
                  Namespace          |-> serviceReg.PackagePath,
                  RegistrationMethod |-> registrationMethod,
                  SDKType            |-> sdkType,
                  SchemaIndex        |-> FuncIndex(registrationMethod),
                  CreateIndex        |-> "",
                  ReadIndex          |-> "",
                  UpdateIndex        |-> "",
                  DeleteIndex        |-> "",
                  AttributeIndex     |-> FuncIndex(registrationMethod)]
         IN IF terraformType \in DOMAIN serviceReg.ResourceCRUDMethods
            THEN LET crudMethods == serviceReg.ResourceCRUDMethods[terraformType]
                 IN [result EXCEPT !.CreateIndex = FuncIndex(crudMethods.CreateMethod),
                                   !.ReadIndex   = FuncIndex(crudMethods.ReadMethod),
                                   !.UpdateIndex = FuncIndex(crudMethods.UpdateMethod),
                                   !.DeleteIndex = FuncIndex(crudMethods.DeleteMethod)]
            ELSE result
    ELSE [TerraformType      |-> MapGet(serviceReg.ResourceTerraformTypes, structType),
          StructType         |-> structType,
          Namespace          |-> serviceReg.PackagePath,
          RegistrationMethod |-> "",
          SDKType            |-> sdkType,
          SchemaIndex        |-> MethodIndex(structType, "Arguments"),
          CreateIndex        |-> MethodIndex(structType, "Create"),
          ReadIndex          |-> MethodIndex(structType, "Read"),
          UpdateIndex        |-> MethodIndex(structType, "Update"),
          DeleteIndex        |-> MethodIndex(structType, "Delete"),
          AttributeIndex     |-> MethodIndex(structType, "Attributes")]

\* NewTerraformDataSourceInfo on a legacy data source reads .ReadMethod
\* through serviceReg.DataSourceMethods[terraformType]: a nil pointer when the
\* map has no entry for it, and the dereference panics.
DataSourceInfoPanics(terraformType, sdkType, serviceReg) ==
    sdkType = "legacy_pluginsdk" /\ terraformType \notin DOMAIN serviceReg.DataSourceMethods

\* NewTerraformDataSourceInfo, where it does not panic.
NewTerraformDataSourceInfo(terraformType, structType, registrationMethod, sdkType, serviceReg) ==
    IF sdkType = "legacy_pluginsdk"
    THEN [TerraformType      |-> terraformType,
          StructType         |-> "",
          Namespace          |-> serviceReg.PackagePath,
          RegistrationMethod |-> registrationMethod,
          SDKType            |-> sdkType,
          SchemaIndex        |-> FuncIndex(registrationMethod),
          ReadIndex          |-> FuncIndex(serviceReg.DataSourceMethods[terraformType].ReadMethod),
          AttributeIndex     |-> FuncIndex(registrationMethod)]
    ELSE [TerraformType      |-> MapGet(serviceReg.DataSourceTerraformTypes, structType),
          StructType         |-> structType,
          Namespace          |-> serviceReg.PackagePath,
          RegistrationMethod |-> "",
          SDKType            |-> sdkType,
          SchemaIndex        |-> MethodIndex(structType, "Arguments"),
          ReadIndex          |-> MethodIndex(structType, "Read"),
          AttributeIndex     |-> MethodIndex(structType, "Attributes")]

\* NewTerraformEphemeralInfo
NewTerraformEphemeralInfo(structType, service) ==
    [TerraformType      |-> MapGet(service.EphemeralTerraformTypes, structType),
     StructType         |-> structType,
     Namespace          |-> service.PackagePath,
     RegistrationMethod |-> "EphemeralResources",
     SDKType            |-> "ephemeral",
     SchemaIndex        |-> MethodIndex(structType, "Schema"),
     OpenIndex          |-> MethodIndex(structType, "Open"),
     RenewIndex         |-> MethodIndex(structType, "Renew"),
     CloseIndex         |-> MethodIndex(structType, "Close")]

\* The json tag of each field and whether it carries omitempty.
JsonKey(field) ==
    CASE field = "TerraformType"      -> "terraform_type"
      [] field = "StructType"         -> "struct_type"
      [] field = "Namespace"          -> "namespace"
      [] field = "RegistrationMethod" -> "registration_method"
      [] field = "SDKType"            -> "sdk_type"
      [] field = "SchemaIndex"        -> "schema_index"
      [] field = "CreateIndex"        -> "create_index"
      [] field = "ReadIndex"          -> "read_index"
      [] field = "UpdateIndex"        -> "update_index"
      [] field = "DeleteIndex"        -> "delete_index"
      [] field = "AttributeIndex"     -> "attribute_index"
      [] field = "OpenIndex"          -> "open_index"
      [] field = "RenewIndex"         -> "renew_index"
      [] field = "CloseIndex"         -> "close_index"

OmitEmpty(field) ==
    field \notin {"TerraformType", "StructType", "Namespace", "RegistrationMethod", "SDKType"}

\* json.MarshalIndent of an entity record: the document's keys and values;
\* an omitempty field holding "" is left out.
MarshalEntity(info) ==
    LET kept == { f \in DOMAIN info : ~(OmitEmpty(f) /\ info[f] = "") }
    IN [k \in { JsonKey(f) : f \in kept } |->
            info[CHOOSE f \in kept : JsonKey(f) = k]]

\* ------------------------------------------------------------------- state
VARIABLES
    numCPU,          \* runtime.NumCPU()
    callback,        \* TRUE when the progress callback passed in is not nil
    completedItems,  \* ProgressTracker.completedItems
    events,          \* the ProgressInfo values the callback has been called with
    readDirErr,      \* TRUE when os.ReadDir on the root fails
    dirEntries,      \* the directories of the root, as listed
    scanPc,          \* where ScanTerraformProviderServices is
    spawned,         \* scan workers started so far
    entryChan,       \* the work channel (closed once filled)
    resultChan,      \* the result channel
    resultClosed,    \* TRUE once close(resultChan) has run
    wg,              \* the WaitGroup counter
    closer,          \* the goroutine running wg.Wait(); close(...)
    workerPc,        \* where each scan worker is
    workerEntry,     \* the directory a scan worker is busy with
    workerCompleted, \* the `completed` local of its UpdateProgress call
    services,        \* the `services` slice of the collecting loop
    stats,           \* the `stats` of the collecting loop
    scanReturn       \* what the scan returned: << >> before it returns

scanVars == << readDirErr, dirEntries, scanPc, spawned, entryChan, resultChan, resultClosed,
               wg, closer, workerPc, workerEntry, workerCompleted,
               services, stats, scanReturn >>
envVars  == << numCPU, callback >>
progressVars == << completedItems, events >>

VARIABLES
    index,             \* the index WriteIndexFiles is called on
    fs,                \* outputFs: the JSON document at each written path
    failures,          \* file-system operations that have failed so far
    writePc,           \* where WriteIndexFiles is
    writePhase,        \* which of the three Write...Files calls is running
    tasks,             \* the `tasks` slice of that call
    taskState,         \* per task: queued, running, written or failed
    failedOrder,       \* the tasks whose write failed, in the order they failed
    sentOrder,         \* the tasks whose error was sent on errorChan, in sending order
    callbackChan,      \* the task channel (closed once filled)
    errorChan,         \* the error channel
    errorClosed,       \* TRUE once close(errorChan) has run
    cbSpawned,         \* pool workers started so far
    cbWg,              \* the pool's WaitGroup counter
    cbCloser,          \* the goroutine running wg.Wait(); close(errorChan)
    cbWorkerPc,        \* where each pool worker is
    cbWorkerTask,      \* the task a pool worker is running (index into tasks; 0: none)
    cbWorkerCompleted, \* the `completed` local of its UpdateProgress call
    crashed,           \* TRUE once a goroutine has panicked: the process is gone
    writeReturn        \* what WriteIndexFiles returned: << >> before it returns

poolVars == << tasks, taskState, failedOrder, sentOrder, callbackChan, errorChan, errorClosed, cbSpawned,
               cbWg, cbCloser, cbWorkerPc, cbWorkerTask, cbWorkerCompleted >>
emitVars == << index, fs, failures, writePc, writePhase, crashed, writeReturn, poolVars >>

\* One package going through the body of a scan worker's loop on its own.
VARIABLES
    parseCase,         \* the source shape the package under analysis is built from
    parsePc,           \* "idle", "merge", "types", "methods", "done"
    parseReg           \* << >>, or <<the ServiceRegistration built so far>>

parseVars == << parseCase, parsePc, parseReg >>

Workers == 1..MaxCPU

Min(a, b) == IF a < b THEN a ELSE b

\* ------------------------------------------------------- progress tracker
\* The ProgressInfo of NewProgressTracker's first report.
InitialEvent(phase, totalItems) ==
    [Phase |-> phase, Current |-> "Initializing...", Completed |-> 0, Total |-> totalItems,
     Percentage |-> 0]

\* The ProgressInfo of one UpdateProgress call (whole percent).
ItemEvent(phase, totalItems, currentItem, completed) ==
    [Phase |-> phase, Current |-> currentItem, Completed |-> completed, Total |-> totalItems,
     Percentage |-> (completed * 100) \div totalItems]

\* The ProgressInfo of Complete.
CompleteEvent(phase, totalItems) ==
    [Phase |-> phase, Current |-> "Completed", Completed |-> totalItems, Total |-> totalItems,
     Percentage |-> 100]

\* NewProgressTracker: the counter starts at zero and the initial report goes
\* to the callback when there is one.
NewProgressTracker(phase, totalItems) ==
    /\ completedItems' = 0
    /\ events' = IF callback THEN Append(events, InitialEvent(phase, totalItems)) ELSE events

\* Complete: the last report, when there is a callback.
Complete(phase, totalItems) ==
    events' = IF callback THEN Append(events, CompleteEvent(phase, totalItems)) ELSE events

\* ------------------------------------------------------------ scan pipeline
ZeroStatistics ==
    [ServiceCount |-> 0, TotalDataSources |-> 0, TotalResources |-> 0,
     LegacyResources |-> 0, ModernResources |-> 0, EphemeralResources |-> 0]

MapLen(m) == Cardinality(DOMAIN m)

\* Buggy variant of AddStatistics: the modern count is assigned, not added.
AddStatisticsAssign(st, serviceReg) ==
    [st EXCEPT
        !.ServiceCount       = @ + 1,
        !.LegacyResources    = @ + MapLen(serviceReg.SupportedResources),
        !.TotalDataSources   = @ + MapLen(serviceReg.SupportedDataSources) + Len(serviceReg.DataSources),
        !.ModernResources    = Len(serviceReg.Resources),
        !.EphemeralResources = @ + Len(serviceReg.EphemeralResources)]

\* The statistics updates of one turn of the collecting loop.
AddStatistics(st, serviceReg) ==
    [st EXCEPT
        !.ServiceCount       = @ + 1,
        !.LegacyResources    = @ + MapLen(serviceReg.SupportedResources),
        !.TotalDataSources   = @ + MapLen(serviceReg.SupportedDataSources) + Len(serviceReg.DataSources),
        !.ModernResources    = @ + Len(serviceReg.Resources),
        !.EphemeralResources = @ + Len(serviceReg.EphemeralResources)]

\* Buggy variant of TotalResources: the ephemeral resources are left out.
TotalResourcesNoEphemeral(st) == st.LegacyResources + st.ModernResources

\* stats.TotalResources as set after the collecting loop.
TotalResources(st) == st.LegacyResources + st.ModernResources + st.EphemeralResources

\* A returned *TerraformProviderIndex.
Index(svcs, st) == [Version |-> "version", Services |-> svcs, Statistics |-> st]

\* The emission pipeline before WriteIndexFiles is called on anything.
PoolIdle ==
    /\ tasks = << >>
    /\ taskState = << >>
    /\ failedOrder = << >>
    /\ sentOrder = << >>
    /\ callbackChan = << >>
    /\ errorChan = << >>
    /\ errorClosed = FALSE
    /\ cbSpawned = 0
    /\ cbWg = 0
    /\ cbCloser = "idle"
    /\ cbWorkerPc = [w \in Workers |-> "idle"]
    /\ cbWorkerTask = [w \in Workers |-> 0]
    /\ cbWorkerCompleted = [w \in Workers |-> 0]

ParseIdle ==
    /\ parseCase = [family |-> "none"]
    /\ parsePc = "idle"
    /\ parseReg = << >>

EmitIdle ==
    /\ index = Index(<< >>, ZeroStatistics)
    /\ fs = EmptyMap
    /\ failures = 0
    /\ writePc = "idle"
    /\ writePhase = ""
    /\ crashed = FALSE
    /\ writeReturn = << >>
    /\ PoolIdle

ScanInit ==
    /\ numCPU \in 1..MaxCPU
    /\ callback \in BOOLEAN
    /\ readDirErr \in BOOLEAN
    /\ \E S \in SUBSET Range(DirNames) :
          /\ Cardinality(S) <= MaxDirs
          /\ readDirErr => S = {}
          /\ dirEntries = SortedDirs(S, 1)
    /\ completedItems = 0
    /\ events = << >>
    /\ ParseIdle
    /\ scanPc = "start"
    /\ spawned = 0
    /\ entryChan = << >>
    /\ resultChan = << >>
    /\ resultClosed = FALSE
    /\ wg = 0
    /\ closer = "idle"
    /\ workerPc = [w \in Workers |-> "idle"]
    /\ workerEntry = [w \in Workers |-> ""]
    /\ workerCompleted = [w \in Workers |-> 0]
    /\ services = << >>
    /\ stats = ZeroStatistics
    /\ scanReturn = << >>
    /\ EmitIdle

ScanWorkerCount == Min(numCPU, Len(dirEntries))

\* The buffer sizes of make(chan os.DirEntry, len(dirEntries)) and
\* make(chan ServiceRegistration, len(dirEntries)).
EntryChanCap == Len(dirEntries)

\* Buggy variant of ResultChanCap: one slot per worker, not per directory.
ResultChanCapPerWorker == ScanWorkerCount

ResultChanCap == Len(dirEntries)

\* What the worker builds from every directory that scans: the registration
\* depends on the directory alone, so it is computed once per directory.
ServiceRegistrations ==
    [name \in { n \in Range(DirNames) : ~Unscannable(ScanSinglePackage(n)) } |->
        BuildServiceRegistration(ScanSinglePackage(name).info, name)]

\* The registration the aggregator builds for a directory.
RegistrationOf(name) == ServiceRegistrations[name]

\* packageInfo, err of the worker's call of gophon.ScanSinglePackage.
WorkerScanned(w) == ScanSinglePackage(workerEntry[w])

\* os.ReadDir fails: the scan returns (nil, err).
ScanReadDirFails ==
    /\ scanPc = "start" /\ readDirErr
    /\ scanPc' = "returned"
    /\ scanReturn' = << [index |-> << >>, err |-> TRUE] >>
    /\ UNCHANGED << readDirErr, dirEntries, spawned, entryChan, resultChan, resultClosed, wg,
                    closer, workerPc, workerEntry, workerCompleted, services, stats >>
    /\ UNCHANGED << envVars, parseVars, progressVars >>
    /\ UNCHANGED emitVars

\* No directories: the empty index is returned before any tracker exists.
ScanNoServices ==
    /\ scanPc = "start" /\ ~readDirErr /\ Len(dirEntries) = 0
    /\ scanPc' = "returned"
    /\ scanReturn' = << [index |-> << Index(<< >>, ZeroStatistics) >>, err |-> FALSE] >>
    /\ UNCHANGED << readDirErr, dirEntries, spawned, entryChan, resultChan, resultClosed, wg,
                    closer, workerPc, workerEntry, workerCompleted, services, stats >>
    /\ UNCHANGED << envVars, parseVars, progressVars >>
    /\ UNCHANGED emitVars

\* The tracker is created and the work channel is filled and closed.
ScanDistribute ==
    /\ scanPc = "start" /\ ~readDirErr /\ Len(dirEntries) > 0
    /\ NewProgressTracker("scanning", Len(dirEntries))
    /\ entryChan' = dirEntries
    /\ scanPc' = "spawn"
    /\ UNCHANGED << readDirErr, dirEntries, spawned, resultChan, resultClosed, wg,
                    closer, workerPc, workerEntry, workerCompleted, services, stats,
                    scanReturn >>
    /\ UNCHANGED envVars
    /\ UNCHANGED << emitVars, parseVars >>

\* One turn of the loop that starts the workers: wg.Add(1); go func() ...
ScanSpawn ==
    /\ scanPc = "spawn" /\ spawned < ScanWorkerCount
    /\ spawned' = spawned + 1
    /\ wg' = wg + 1
    /\ workerPc' = [workerPc EXCEPT ![spawned + 1] = "recv"]
    /\ UNCHANGED << readDirErr, dirEntries, scanPc, entryChan, resultChan, resultClosed,
                    closer, workerEntry, workerCompleted, services, stats, scanReturn >>
    /\ UNCHANGED << envVars, parseVars, progressVars >>
    /\ UNCHANGED emitVars

\* go func() { wg.Wait(); close(resultChan) }(), then on to the collecting loop.
ScanStartCloser ==
    /\ scanPc = "spawn" /\ spawned = ScanWorkerCount
    /\ closer' = "waiting"
    /\ scanPc' = "collect"
    /\ UNCHANGED << readDirErr, dirEntries, spawned, entryChan, resultChan, resultClosed, wg,
                    workerPc, workerEntry, workerCompleted, services, stats, scanReturn >>
    /\ UNCHANGED << envVars, parseVars, progressVars >>
    /\ UNCHANGED emitVars

\* Buggy variant of ScanWorkerReceive: the worker leaves its loop without
\* calling wg.Done.
ScanWorkerReceiveNoDone(w) ==
    /\ workerPc[w] = "recv"
    /\ IF entryChan # << >>
       THEN /\ entryChan' = Tail(entryChan)
            /\ workerEntry' = [workerEntry EXCEPT ![w] = Head(entryChan)]
            /\ workerPc' = [workerPc EXCEPT ![w] = "progress"]
       ELSE /\ workerPc' = [workerPc EXCEPT ![w] = "done"]
            /\ UNCHANGED << entryChan, workerEntry >>
    /\ UNCHANGED << readDirErr, dirEntries, scanPc, spawned, resultChan, resultClosed, wg,
                    closer, workerCompleted, services, stats, scanReturn >>
    /\ UNCHANGED << envVars, parseVars, progressVars >>
    /\ UNCHANGED emitVars

\* Buggy variant of ScanWorkerReceive: the first worker reads the directory
\* from the work queue but leaves it there.
ScanWorkerReceiveLeavesEntry(w) ==
    /\ workerPc[w] = "recv"
    /\ IF entryChan # << >>
       THEN /\ entryChan' = IF w = 1 THEN entryChan ELSE Tail(entryChan)
            /\ workerEntry' = [workerEntry EXCEPT ![w] = Head(entryChan)]
            /\ workerPc' = [workerPc EXCEPT ![w] = "progress"]
            /\ wg' = wg
       ELSE /\ workerPc' = [workerPc EXCEPT ![w] = "done"]
            /\ wg' = wg - 1
            /\ UNCHANGED << entryChan, workerEntry >>
    /\ UNCHANGED << readDirErr, dirEntries, scanPc, spawned, resultChan, resultClosed,
                    closer, workerCompleted, services, stats, scanReturn >>
    /\ UNCHANGED << envVars, parseVars, progressVars >>
    /\ UNCHANGED emitVars

\* `for entry := range entryChan`: the next directory is taken and handed to
\* the syntax provider, or the channel is drained and the worker is done.
ScanWorkerReceive(w) ==
    /\ workerPc[w] = "recv"
    /\ IF entryChan # << >>
       THEN /\ entryChan' = Tail(entryChan)
            /\ workerEntry' = [workerEntry EXCEPT ![w] = Head(entryChan)]
            /\ workerPc' = [workerPc EXCEPT ![w] = "progress"]
            /\ wg' = wg
       ELSE /\ workerPc' = [workerPc EXCEPT ![w] = "done"]
            /\ wg' = wg - 1
            /\ UNCHANGED << entryChan, workerEntry >>
    /\ UNCHANGED << readDirErr, dirEntries, scanPc, spawned, resultChan, resultClosed,
                    closer, workerCompleted, services, stats, scanReturn >>
    /\ UNCHANGED << envVars, parseVars, progressVars >>
    /\ UNCHANGED emitVars

\* Buggy variant of ScanWorkerProgress: no report for a package that will be skipped.
ScanWorkerProgressSkipsUnscannable(w) ==
    /\ workerPc[w] = "progress"
    /\ IF callback /\ ~Unscannable(WorkerScanned(w))
       THEN /\ completedItems' = completedItems + 1
            /\ workerCompleted' = [workerCompleted EXCEPT ![w] = completedItems + 1]
            /\ workerPc' = [workerPc EXCEPT ![w] = "notify"]
       ELSE /\ workerPc' = [workerPc EXCEPT ![w] = "process"]
            /\ UNCHANGED << completedItems, workerCompleted >>
    /\ UNCHANGED << readDirErr, dirEntries, scanPc, spawned, entryChan, resultChan, resultClosed,
                    wg, closer, workerEntry, services, stats, scanReturn >>
    /\ UNCHANGED << envVars, parseVars, events >>
    /\ UNCHANGED emitVars

\* progressTracker.UpdateProgress, first half: nothing without a callback,
\* else the atomic increment whose result is kept in `completed`.
ScanWorkerProgress(w) ==
    /\ workerPc[w] = "progress"
    /\ IF callback
       THEN /\ completedItems' = completedItems + 1
            /\ workerCompleted' = [workerCompleted EXCEPT ![w] = completedItems + 1]
            /\ workerPc' = [workerPc EXCEPT ![w] = "notify"]
       ELSE /\ workerPc' = [workerPc EXCEPT ![w] = "process"]
            /\ UNCHANGED << completedItems, workerCompleted >>
    /\ UNCHANGED << readDirErr, dirEntries, scanPc, spawned, entryChan, resultChan, resultClosed,
                    wg, closer, workerEntry, services, stats, scanReturn >>
    /\ UNCHANGED << envVars, parseVars, events >>
    /\ UNCHANGED emitVars

\* progressTracker.UpdateProgress, second half: the callback is called.
ScanWorkerNotify(w) ==
    /\ workerPc[w] = "notify"
    /\ events' = Append(events, ItemEvent("scanning", Len(dirEntries), workerEntry[w],
                                          workerCompleted[w]))
    /\ workerPc' = [workerPc EXCEPT ![w] = "process"]
    /\ workerCompleted' = [workerCompleted EXCEPT ![w] = 0]
    /\ UNCHANGED << readDirErr, dirEntries, scanPc, spawned, entryChan, resultChan, resultClosed,
                    wg, closer, workerEntry, services, stats,
                    scanReturn >>
    /\ UNCHANGED << envVars, parseVars, completedItems >>
    /\ UNCHANGED emitVars

\* The rest of the loop body: an unscannable package is skipped; else the
\* registration is built and pushed when it holds anything.
ScanWorkerProcess(w) ==
    /\ workerPc[w] = "process"
    /\ IF Unscannable(WorkerScanned(w))
       THEN resultChan' = resultChan
       ELSE LET serviceReg == RegistrationOf(workerEntry[w])
            IN resultChan' = IF HasRegistrations(serviceReg)
                             THEN Append(resultChan, serviceReg) ELSE resultChan
    /\ workerPc' = [workerPc EXCEPT ![w] = "recv"]
    /\ workerEntry' = [workerEntry EXCEPT ![w] = ""]
    /\ UNCHANGED << readDirErr, dirEntries, scanPc, spawned, entryChan, resultClosed,
                    wg, closer, workerCompleted, services, stats, scanReturn >>
    /\ UNCHANGED << envVars, parseVars, progressVars >>
    /\ UNCHANGED emitVars

\* Buggy variant of ScanCloser: the result channel is closed without waiting.
ScanCloserNoWait ==
    /\ closer = "waiting"
    /\ resultClosed' = TRUE
    /\ closer' = "done"
    /\ UNCHANGED << readDirErr, dirEntries, scanPc, spawned, entryChan, resultChan,
                    wg, workerPc, workerEntry, workerCompleted, services, stats,
                    scanReturn >>
    /\ UNCHANGED << envVars, parseVars, progressVars >>
    /\ UNCHANGED emitVars

\* wg.Wait() returns once every worker has called Done; close(resultChan).
ScanCloser ==
    /\ closer = "waiting" /\ wg = 0
    /\ resultClosed' = TRUE
    /\ closer' = "done"
    /\ UNCHANGED << readDirErr, dirEntries, scanPc, spawned, entryChan, resultChan,
                    wg, workerPc, workerEntry, workerCompleted, services, stats,
                    scanReturn >>
    /\ UNCHANGED << envVars, parseVars, progressVars >>
    /\ UNCHANGED emitVars

\* One turn of `for serviceReg := range resultChan`.  (The two global maps
\* the loop also fills are never read and are not part of the index.)
ScanCollect ==
    /\ scanPc = "collect" /\ resultChan # << >>
    /\ resultChan' = Tail(resultChan)
    /\ services' = Append(services, Head(resultChan))
    /\ stats' = AddStatistics(stats, Head(resultChan))
    /\ UNCHANGED << readDirErr, dirEntries, scanPc, spawned, entryChan, resultClosed,
                    wg, closer, workerPc, workerEntry, workerCompleted, scanReturn >>
    /\ UNCHANGED << envVars, parseVars, progressVars >>
    /\ UNCHANGED emitVars

\* Buggy variant of ScanFinish: the collecting loop ends as soon as the
\* result channel is empty, closed or not.
ScanFinishOnEmpty ==
    /\ scanPc = "collect" /\ resultChan = << >>
    /\ stats' = [stats EXCEPT !.TotalResources = TotalResources(stats)]
    /\ Complete("scanning", Len(dirEntries))
    /\ scanReturn' = << [index |-> << Index(services, stats') >>, err |-> FALSE] >>
    /\ scanPc' = "returned"
    /\ UNCHANGED << readDirErr, dirEntries, spawned, entryChan, resultChan, resultClosed,
                    wg, closer, workerPc, workerEntry, workerCompleted, services >>
    /\ UNCHANGED << envVars, parseVars, completedItems >>
    /\ UNCHANGED emitVars

\* The result channel is closed and drained: the total is set, completion is
\* reported and the index is returned.
ScanFinish ==
    /\ scanPc = "collect" /\ resultChan = << >> /\ resultClosed
    /\ stats' = [stats EXCEPT !.TotalResources = TotalResources(stats)]
    /\ Complete("scanning", Len(dirEntries))
    /\ scanReturn' = << [index |-> << Index(services, stats') >>, err |-> FALSE] >>
    /\ scanPc' = "returned"
    /\ UNCHANGED << readDirErr, dirEntries, spawned, entryChan, resultChan, resultClosed,
                    wg, closer, workerPc, workerEntry, workerCompleted, services >>
    /\ UNCHANGED << envVars, parseVars, completedItems >>
    /\ UNCHANGED emitVars

ScanNext ==
    \/ ScanReadDirFails
    \/ ScanNoServices
    \/ ScanDistribute
    \/ ScanSpawn
    \/ ScanStartCloser
    \/ \E w \in Workers : ScanWorkerReceive(w)
    \/ \E w \in Workers : ScanWorkerProgress(w)
    \/ \E w \in Workers : ScanWorkerNotify(w)
    \/ \E w \in Workers : ScanWorkerProcess(w)
    \/ ScanCloser
    \/ ScanCollect
    \/ ScanFinish

vars == << envVars, progressVars, scanVars, emitVars, parseVars >>

ScanSpec == ScanInit /\ [][ScanNext]_vars

\* The Go scheduler runs every runnable goroutine: a step that stays possible
\* is eventually taken.
ScanFairSpec == ScanSpec /\ WF_vars(ScanNext)

\* -------------------------------------------------------- emission tasks
\* One closure of a `tasks` slice, by the variables it captured.
LegacyTask(kind, svc, tfType, regMethod) ==
    [kind |-> kind, svc |-> svc, tfType |-> tfType, regMethod |-> regMethod, structT |-> ""]

ModernTask(kind, svc, structT) ==
    [kind |-> kind, svc |-> svc, tfType |-> "", regMethod |-> "", structT |-> structT]

\* The closures one service contributes to a call, for one order of the range
\* over its legacy map: the legacy entries, then the modern list in order.
ServiceTasks(legacyKind, modernKind, svc, table, order, list) ==
    [j \in 1..Len(order) |-> LegacyTask(legacyKind, svc, order[j], table[order[j]])]
    \o [j \in 1..Len(list) |-> ModernTask(modernKind, svc, list[j])]

\* The task lists the loop over index.Services can build from service i on.
RECURSIVE TaskLists(_, _, _)
TaskLists(what, svcs, i) ==
    IF i > Len(svcs) THEN { << >> }
    ELSE LET service == svcs[i]
             own == CASE what = "resources" ->
                          { ServiceTasks("legacy resource", "modern resource", i,
                                         service.SupportedResources, order, service.Resources) :
                            order \in Perms(DOMAIN service.SupportedResources) }
                      [] what = "datasources" ->
                          { ServiceTasks("legacy data source", "modern data source", i,
                                         service.SupportedDataSources, order, service.DataSources) :
                            order \in Perms(DOMAIN service.SupportedDataSources) }
                      [] what = "ephemeral" ->
                          { ServiceTasks("", "ephemeral resource", i, EmptyMap, << >>,
                                         service.EphemeralResources) }
         IN { a \o b : a \in own, b \in TaskLists(what, svcs, i + 1) }

\* The service a closure captured.
TaskService(t) == index.Services[t.svc]

\* The terraformType local of a closure: the legacy key, or the resolved name
\* of the modern object with the object name as the fallback.
TaskTerraformType(t) ==
    LET svc == TaskService(t)
        types == CASE t.kind = "modern resource"    -> svc.ResourceTerraformTypes
                   [] t.kind = "modern data source" -> svc.DataSourceTerraformTypes
                   [] t.kind = "ephemeral resource" -> svc.EphemeralTerraformTypes
                   [] OTHER -> EmptyMap
    IN IF t.kind \in {"legacy resource", "legacy data source"} THEN t.tfType
       ELSE IF t.structT \in DOMAIN types THEN types[t.structT] ELSE t.structT

\* The subdirectory a closure writes to.
TaskDir(t) ==
    CASE t.kind \in {"legacy resource", "modern resource"}       -> "resources"
      [] t.kind \in {"legacy data source", "modern data source"} -> "datasources"
      [] t.kind = "ephemeral resource"                           -> "ephemeral"

\* filePath of a closure.
TaskPath(t) == << TaskDir(t), JsonName(TaskTerraformType(t)) >>

\* The closure panics while building its record.
TaskPanics(t) ==
    /\ t.kind = "legacy data source"
    /\ DataSourceInfoPanics(t.tfType, "legacy_pluginsdk", TaskService(t))

\* The record a closure builds, as marshalled by WriteJSONFile.
TaskDocument(t) ==
    LET svc == TaskService(t)
    IN MarshalEntity(
        CASE t.kind = "legacy resource" ->
                 NewTerraformResourceInfo(t.tfType, "", t.regMethod, "legacy_pluginsdk", svc)
          [] t.kind = "modern resource" ->
                 NewTerraformResourceInfo(TaskTerraformType(t), t.structT, "", "modern_sdk", svc)
          [] t.kind = "legacy data source" ->
                 NewTerraformDataSourceInfo(t.tfType, "", t.regMethod, "legacy_pluginsdk", svc)
          [] t.kind = "modern data source" ->
                 NewTerraformDataSourceInfo(TaskTerraformType(t), t.structT, "", "modern_sdk", svc)
          [] t.kind = "ephemeral resource" ->
                 NewTerraformEphemeralInfo(t.structT, svc))

\* The error a closure returns when its WriteJSONFile fails.
TaskError(t) ==
    [msg |-> "failed to write " \o t.kind \o " file " \o JsonName(TaskTerraformType(t))]

\* The currentItem a closure reports.
TaskProgressName(t) ==
    (CASE TaskDir(t) = "resources"   -> "resource "
       [] TaskDir(t) = "datasources" -> "data source "
       [] TaskDir(t) = "ephemeral"   -> "ephemeral ") \o TaskTerraformType(t)

\* fmt.Errorf("...: %w", err) of WriteIndexFiles.
Wrap(msg, err) == [msg |-> msg, cause |-> << err >>]

\* totalFiles of WriteIndexFiles.
RECURSIVE TotalFilesFrom(_, _)
TotalFilesFrom(svcs, i) ==
    IF i > Len(svcs) THEN 0
    ELSE MapLen(svcs[i].SupportedResources) + Len(svcs[i].Resources)
         + MapLen(svcs[i].SupportedDataSources) + Len(svcs[i].DataSources)
         + Len(svcs[i].EphemeralResources) + TotalFilesFrom(svcs, i + 1)

\* Buggy variant of TotalFiles: the summary document is counted twice.
TotalFilesSummaryTwice == 2 + TotalFilesFrom(index.Services, 1)

TotalFiles == 1 + TotalFilesFrom(index.Services, 1)

MainIndexPath == << "", "terraform-provider-azurerm-index.json" >>

\* ------------------------------------------------------ emission pipeline
\* The index a scan of these directories returns when the registrations
\* arrive in listing order.
RECURSIVE CollectFrom(_, _, _, _)
CollectFrom(names, i, svcs, st) ==
    IF i > Len(names)
    THEN Index(svcs, [st EXCEPT !.TotalResources = TotalResources(st)])
    ELSE LET serviceReg == BuildServiceRegistration(ScanSinglePackage(names[i]).info, names[i])
         IN CollectFrom(names, i + 1, Append(svcs, serviceReg), AddStatistics(st, serviceReg))

\* WriteIndexFiles is about to be called on an index a scan has returned.
EmitInit ==
    /\ numCPU \in 1..MaxCPU
    /\ callback \in BOOLEAN
    /\ completedItems = 0
    /\ events = << >>
    /\ ParseIdle
    /\ \E S \in SUBSET Range(IndexedNames) :
          /\ Cardinality(S) <= MaxServices
          /\ dirEntries = SelectSeq(IndexedNames, LAMBDA n : n \in S)
    /\ index = CollectFrom(dirEntries, 1, << >>, ZeroStatistics)
    /\ readDirErr = FALSE
    /\ scanPc = "returned"
    /\ spawned = 0
    /\ entryChan = << >>
    /\ resultChan = << >>
    /\ resultClosed = TRUE
    /\ wg = 0
    /\ closer = "done"
    /\ workerPc = [w \in Workers |-> "idle"]
    /\ workerEntry = [w \in Workers |-> ""]
    /\ workerCompleted = [w \in Workers |-> 0]
    /\ services = index.Services
    /\ stats = index.Statistics
    /\ scanReturn = << [index |-> << index >>, err |-> FALSE] >>
    /\ fs = EmptyMap
    /\ failures = 0
    /\ writePc = "start"
    /\ writePhase = ""
    /\ crashed = FALSE
    /\ writeReturn = << >>
    /\ PoolIdle

NextPhase(what) ==
    CASE what = "resources"   -> "datasources"
      [] what = "datasources" -> "ephemeral"
      [] what = "ephemeral"   -> ""

\* The message WriteIndexFiles wraps a failed Write...Files call in.
PhaseMessage(what) ==
    CASE what = "resources"   -> "failed to write resource files"
      [] what = "datasources" -> "failed to write data source files"
      [] what = "ephemeral"   -> "failed to write ephemeral files"

\* WriteIndexFiles moves on after a Write...Files call returned nil.
PhaseDone ==
    /\ writePhase' = NextPhase(writePhase)
    /\ writePc' = IF writePhase = "ephemeral" THEN "complete" ELSE "prepare"

\* WriteIndexFiles returns err.
WriteReturns(err) ==
    /\ writeReturn' = << [err |-> err] >>
    /\ writePc' = "returned"

\* totalFiles is counted and the tracker created.
WriteStart ==
    /\ ~crashed /\ writePc = "start"
    /\ NewProgressTracker("indexing", TotalFiles)
    /\ writePc' = "mkdir"
    /\ UNCHANGED << index, fs, failures, writePhase, crashed, writeReturn, poolVars >>
    /\ UNCHANGED << envVars, parseVars, scanVars >>

\* CreateDirectoryStructure: the four MkdirAll calls succeed, or one fails.
WriteCreateDirectoryStructure ==
    /\ ~crashed /\ writePc = "mkdir"
    /\ \E ok \in BOOLEAN :
          /\ ok \/ failures < MaxFailures
          /\ IF ok
             THEN /\ writePc' = "mainindex"
                  /\ UNCHANGED << failures, writeReturn >>
             ELSE /\ failures' = failures + 1
                  /\ WriteReturns(<< Wrap("failed to create directory structure",
                                          [msg |-> "failed to create directory"]) >>)
    /\ UNCHANGED << index, fs, writePhase, crashed, poolVars >>
    /\ UNCHANGED << envVars, parseVars, progressVars, scanVars >>

\* Buggy variant of WriteMainIndexFile: a failed write of the summary is not
\* returned, the call goes on to the resource files.
WriteMainIndexFileErrorDropped ==
    /\ ~crashed /\ writePc = "mainindex"
    /\ \E ok \in BOOLEAN :
          /\ ok \/ failures < MaxFailures
          /\ IF ok
             THEN /\ fs' = MapPut(fs, MainIndexPath, index)
                  /\ UNCHANGED failures
             ELSE /\ failures' = failures + 1
                  /\ UNCHANGED fs
    /\ completedItems' = IF callback THEN completedItems + 1 ELSE completedItems
    /\ events' = IF callback
                 THEN Append(events, ItemEvent("indexing", TotalFiles,
                                               "main index file", completedItems + 1))
                 ELSE events
    /\ writePc' = "prepare"
    /\ writePhase' = "resources"
    /\ UNCHANGED << index, crashed, writeReturn, poolVars >>
    /\ UNCHANGED << envVars, parseVars, scanVars >>

\* WriteMainIndexFile, and on success UpdateProgress("main index file").
WriteMainIndexFile ==
    /\ ~crashed /\ writePc = "mainindex"
    /\ \E ok \in BOOLEAN :
          /\ ok \/ failures < MaxFailures
          /\ IF ok
             THEN /\ fs' = MapPut(fs, MainIndexPath, index)
                  /\ completedItems' = IF callback THEN completedItems + 1 ELSE completedItems
                  /\ events' = IF callback
                               THEN Append(events, ItemEvent("indexing", TotalFiles,
                                                             "main index file", completedItems + 1))
                               ELSE events
                  /\ writePc' = "prepare"
                  /\ writePhase' = "resources"
                  /\ UNCHANGED << failures, writeReturn >>
             ELSE /\ failures' = failures + 1
                  /\ WriteReturns(<< Wrap("failed to write main index file",
                                          [msg |-> "failed to write file"]) >>)
                  /\ UNCHANGED << fs, writePhase, progressVars >>
    /\ UNCHANGED << index, crashed, poolVars >>
    /\ UNCHANGED << envVars, parseVars, scanVars >>

\* WriteResourceFiles / WriteDataSourceFiles / WriteEphemeralFiles build the
\* task slice; processCallbacksParallel returns nil at once for no tasks,
\* else fills and closes callbackChan.
WritePrepare ==
    /\ ~crashed /\ writePc = "prepare"
    /\ \E ts \in TaskLists(writePhase, index.Services, 1) :
          IF ts = << >>
          THEN /\ PhaseDone
               /\ UNCHANGED poolVars
          ELSE /\ tasks' = ts
               /\ taskState' = [i \in 1..Len(ts) |-> "queued"]
               /\ failedOrder' = << >>
               /\ sentOrder' = << >>
               /\ callbackChan' = [i \in 1..Len(ts) |-> i]
               /\ errorChan' = << >>
               /\ errorClosed' = FALSE
               /\ cbSpawned' = 0
               /\ cbWg' = 0
               /\ cbCloser' = "idle"
               /\ cbWorkerPc' = [w \in Workers |-> "idle"]
               /\ cbWorkerTask' = [w \in Workers |-> 0]
               /\ cbWorkerCompleted' = [w \in Workers |-> 0]
               /\ writePc' = "spawn"
               /\ UNCHANGED writePhase
    /\ UNCHANGED << index, fs, failures, crashed, writeReturn >>
    /\ UNCHANGED << envVars, parseVars, progressVars, scanVars >>

\* numWorkers of processCallbacksParallel.
PoolWorkerCount == Min(numCPU, Len(tasks))

\* The buffer sizes of make(chan func() error, len(tasks)) and
\* make(chan error, len(tasks)).
CallbackChanCap == Len(tasks)

ErrorChanCap == Len(tasks)

\* One turn of the loop that starts the pool workers.
WriteSpawn ==
    /\ ~crashed /\ writePc = "spawn" /\ cbSpawned < PoolWorkerCount
    /\ cbSpawned' = cbSpawned + 1
    /\ cbWg' = cbWg + 1
    /\ cbWorkerPc' = [cbWorkerPc EXCEPT ![cbSpawned + 1] = "recv"]
    /\ UNCHANGED << tasks, taskState, failedOrder, sentOrder, callbackChan, errorChan,
                    errorClosed, cbCloser, cbWorkerTask, cbWorkerCompleted >>
    /\ UNCHANGED << index, fs, failures, writePc, writePhase, crashed, writeReturn >>
    /\ UNCHANGED << envVars, parseVars, progressVars, scanVars >>

\* go func() { wg.Wait(); close(errorChan) }(), then on to the error loop.
WriteStartCloser ==
    /\ ~crashed /\ writePc = "spawn" /\ cbSpawned = PoolWorkerCount
    /\ cbCloser' = "waiting"
    /\ writePc' = "collect"
    /\ UNCHANGED << tasks, taskState, failedOrder, sentOrder, callbackChan, errorChan,
                    errorClosed, cbSpawned, cbWg, cbWorkerPc, cbWorkerTask, cbWorkerCompleted >>
    /\ UNCHANGED << index, fs, failures, writePhase, crashed, writeReturn >>
    /\ UNCHANGED << envVars, parseVars, progressVars, scanVars >>

\* `for callback := range callbackChan`: the next task is taken, or the
\* channel is drained and the worker returns (the deferred wg.Done runs).
CbWorkerReceive(w) ==
    /\ ~crashed /\ cbWorkerPc[w] = "recv"
    /\ IF callbackChan # << >>
       THEN /\ callbackChan' = Tail(callbackChan)
            /\ cbWorkerTask' = [cbWorkerTask EXCEPT ![w] = Head(callbackChan)]
            /\ taskState' = [taskState EXCEPT ![Head(callbackChan)] = "running"]
            /\ cbWorkerPc' = [cbWorkerPc EXCEPT ![w] = "run"]
            /\ cbWg' = cbWg
       ELSE /\ cbWorkerPc' = [cbWorkerPc EXCEPT ![w] = "done"]
            /\ cbWg' = cbWg - 1
            /\ UNCHANGED << callbackChan, cbWorkerTask, taskState >>
    /\ UNCHANGED << tasks, failedOrder, sentOrder, errorChan, errorClosed, cbSpawned, cbCloser,
                    cbWorkerCompleted >>
    /\ UNCHANGED << index, fs, failures, writePc, writePhase, crashed, writeReturn >>
    /\ UNCHANGED << envVars, parseVars, progressVars, scanVars >>

\* The closure up to the result of WriteJSONFile: the record is built (which
\* may panic) and the file is written whole, or the write fails.
CbWorkerRun(w) ==
    /\ ~crashed /\ cbWorkerPc[w] = "run"
    /\ LET t == tasks[cbWorkerTask[w]]
       IN IF TaskPanics(t)
          THEN /\ crashed' = TRUE
               /\ UNCHANGED << fs, failures, taskState, failedOrder, cbWorkerPc >>
          ELSE /\ crashed' = crashed
               /\ \E ok \in BOOLEAN :
                     /\ ok \/ failures < MaxFailures
                     /\ IF ok
                        THEN /\ fs' = MapPut(fs, TaskPath(t), TaskDocument(t))
                             /\ taskState' = [taskState EXCEPT ![cbWorkerTask[w]] = "written"]
                             /\ cbWorkerPc' = [cbWorkerPc EXCEPT ![w] = "progress"]
                             /\ UNCHANGED << failures, failedOrder >>
                        ELSE /\ failures' = failures + 1
                             /\ taskState' = [taskState EXCEPT ![cbWorkerTask[w]] = "failed"]
                             /\ failedOrder' = Append(failedOrder, cbWorkerTask[w])
                             /\ cbWorkerPc' = [cbWorkerPc EXCEPT ![w] = "send"]
                             /\ fs' = fs
    /\ UNCHANGED << tasks, sentOrder, callbackChan, errorChan, errorClosed, cbSpawned, cbWg,
                    cbCloser, cbWorkerTask, cbWorkerCompleted >>
    /\ UNCHANGED << index, writePc, writePhase, writeReturn >>
    /\ UNCHANGED << envVars, parseVars, progressVars, scanVars >>

\* Buggy variant of CbWorkerProgress: UpdateProgress has no nil test, so
\* without a callback it calls a nil function and the process panics.
CbWorkerProgressNoNilTest(w) ==
    /\ ~crashed /\ cbWorkerPc[w] = "progress"
    /\ IF callback
       THEN /\ completedItems' = completedItems + 1
            /\ cbWorkerCompleted' = [cbWorkerCompleted EXCEPT ![w] = completedItems + 1]
            /\ cbWorkerPc' = [cbWorkerPc EXCEPT ![w] = "notify"]
            /\ crashed' = crashed
       ELSE /\ crashed' = TRUE
            /\ UNCHANGED << completedItems, cbWorkerCompleted, cbWorkerPc >>
    /\ UNCHANGED << tasks, taskState, failedOrder, sentOrder, callbackChan, errorChan,
                    errorClosed, cbSpawned, cbWg, cbCloser, cbWorkerTask >>
    /\ UNCHANGED << index, fs, failures, writePc, writePhase, writeReturn >>
    /\ UNCHANGED << envVars, parseVars, events, scanVars >>

\* The closure's UpdateProgress, first half; without a callback the closure
\* returns nil here.
CbWorkerProgress(w) ==
    /\ ~crashed /\ cbWorkerPc[w] = "progress"
    /\ IF callback
       THEN /\ completedItems' = completedItems + 1
            /\ cbWorkerCompleted' = [cbWorkerCompleted EXCEPT ![w] = completedItems + 1]
            /\ cbWorkerPc' = [cbWorkerPc EXCEPT ![w] = "notify"]
            /\ cbWorkerTask' = cbWorkerTask
       ELSE /\ cbWorkerPc' = [cbWorkerPc EXCEPT ![w] = "recv"]
            /\ cbWorkerTask' = [cbWorkerTask EXCEPT ![w] = 0]
            /\ UNCHANGED << completedItems, cbWorkerCompleted >>
    /\ UNCHANGED << tasks, taskState, failedOrder, sentOrder, callbackChan, errorChan,
                    errorClosed, cbSpawned, cbWg, cbCloser >>
    /\ UNCHANGED << index, fs, failures, writePc, writePhase, crashed, writeReturn >>
    /\ UNCHANGED << envVars, parseVars, events, scanVars >>

\* The closure's UpdateProgress, second half, and its `return nil`.
CbWorkerNotify(w) ==
    /\ ~crashed /\ cbWorkerPc[w] = "notify"
    /\ events' = Append(events, ItemEvent("indexing", TotalFiles,
                                          TaskProgressName(tasks[cbWorkerTask[w]]),
                                          cbWorkerCompleted[w]))
    /\ cbWorkerPc' = [cbWorkerPc EXCEPT ![w] = "recv"]
    /\ cbWorkerTask' = [cbWorkerTask EXCEPT ![w] = 0]
    /\ cbWorkerCompleted' = [cbWorkerCompleted EXCEPT ![w] = 0]
    /\ UNCHANGED << tasks, taskState, failedOrder, sentOrder, callbackChan, errorChan,
                    errorClosed, cbSpawned, cbWg, cbCloser >>
    /\ UNCHANGED << index, fs, failures, writePc, writePhase, crashed, writeReturn >>
    /\ UNCHANGED << envVars, parseVars, completedItems, scanVars >>

\* `errorChan <- err` (buffered for every task, so it never blocks).
CbWorkerSend(w) ==
    /\ ~crashed /\ cbWorkerPc[w] = "send"
    /\ errorChan' = Append(errorChan, TaskError(tasks[cbWorkerTask[w]]))
    /\ sentOrder' = Append(sentOrder, cbWorkerTask[w])
    /\ cbWorkerPc' = [cbWorkerPc EXCEPT ![w] = "exit"]
    /\ cbWorkerTask' = [cbWorkerTask EXCEPT ![w] = 0]
    /\ UNCHANGED << tasks, taskState, failedOrder, callbackChan, errorClosed, cbSpawned, cbWg,
                    cbCloser, cbWorkerCompleted >>
    /\ UNCHANGED << index, fs, failures, writePc, writePhase, crashed, writeReturn >>
    /\ UNCHANGED << envVars, parseVars, progressVars, scanVars >>

\* `return` after the send: only this worker stops; the deferred wg.Done runs.
CbWorkerExit(w) ==
    /\ ~crashed /\ cbWorkerPc[w] = "exit"
    /\ cbWg' = cbWg - 1
    /\ cbWorkerPc' = [cbWorkerPc EXCEPT ![w] = "done"]
    /\ UNCHANGED << tasks, taskState, failedOrder, sentOrder, callbackChan, errorChan,
                    errorClosed, cbSpawned, cbCloser, cbWorkerTask, cbWorkerCompleted >>
    /\ UNCHANGED << index, fs, failures, writePc, writePhase, crashed, writeReturn >>
    /\ UNCHANGED << envVars, parseVars, progressVars, scanVars >>

\* wg.Wait() returns once every pool worker has called Done; close(errorChan).
CbCloser ==
    /\ ~crashed /\ cbCloser = "waiting" /\ cbWg = 0
    /\ errorClosed' = TRUE
    /\ cbCloser' = "done"
    /\ UNCHANGED << tasks, taskState, failedOrder, sentOrder, callbackChan, errorChan,
                    cbSpawned, cbWg, cbWorkerPc, cbWorkerTask, cbWorkerCompleted >>
    /\ UNCHANGED << index, fs, failures, writePc, writePhase, crashed, writeReturn >>
    /\ UNCHANGED << envVars, parseVars, progressVars, scanVars >>

\* Buggy variant of ReceivedError: the newest error in the channel is taken.
ReceivedErrorNewest(ch) == ch[Len(ch)]

\* The err of `for err := range errorChan` on a channel holding something.
ReceivedError(ch) == Head(ch)

\* The error loop receives an error: processCallbacksParallel returns it at
\* once, and WriteIndexFiles returns it wrapped.
WriteCollectError ==
    /\ ~crashed /\ writePc = "collect" /\ errorChan # << >>
    /\ errorChan' = Tail(errorChan)
    /\ WriteReturns(<< Wrap(PhaseMessage(writePhase), ReceivedError(errorChan)) >>)
    /\ UNCHANGED << tasks, taskState, failedOrder, sentOrder, callbackChan, errorClosed,
                    cbSpawned, cbWg, cbCloser, cbWorkerPc, cbWorkerTask, cbWorkerCompleted >>
    /\ UNCHANGED << index, fs, failures, writePhase, crashed >>
    /\ UNCHANGED << envVars, parseVars, progressVars, scanVars >>

\* The error channel is closed and empty: processCallbacksParallel returns nil.
WriteCollectDone ==
    /\ ~crashed /\ writePc = "collect" /\ errorChan = << >> /\ errorClosed
    /\ PhaseDone
    /\ UNCHANGED poolVars
    /\ UNCHANGED << index, fs, failures, crashed, writeReturn >>
    /\ UNCHANGED << envVars, parseVars, progressVars, scanVars >>

\* progressTracker.Complete() and `return nil`.
WriteComplete ==
    /\ ~crashed /\ writePc = "complete"
    /\ Complete("indexing", TotalFiles)
    /\ WriteReturns(<< >>)
    /\ UNCHANGED poolVars
    /\ UNCHANGED << index, fs, failures, writePhase, crashed >>
    /\ UNCHANGED << envVars, parseVars, completedItems, scanVars >>

EmitNext ==
    \/ WriteStart
    \/ WriteCreateDirectoryStructure
    \/ WriteMainIndexFile
    \/ WritePrepare
    \/ WriteSpawn
    \/ WriteStartCloser
    \/ \E w \in Workers : CbWorkerReceive(w)
    \/ \E w \in Workers : CbWorkerRun(w)
    \/ \E w \in Workers : CbWorkerProgress(w)
    \/ \E w \in Workers : CbWorkerNotify(w)
    \/ \E w \in Workers : CbWorkerSend(w)
    \/ \E w \in Workers : CbWorkerExit(w)
    \/ CbCloser
    \/ WriteCollectError
    \/ WriteCollectDone
    \/ WriteComplete

EmitSpec == EmitInit /\ [][EmitNext]_vars

\* The Go scheduler runs every runnable goroutine: a step that stays possible
\* is eventually taken.
EmitFairSpec == EmitSpec /\ WF_vars(EmitNext)

\* ------------------------------------------------------- claims on the scan
ScanReturned == scanReturn # << >>

\* The index the scan returned (only where it returned one).
ReturnedIndex == scanReturn[1].index[1]

ReturnedAnIndex == ScanReturned /\ scanReturn[1].index # << >>


\* The directories of the listing that end up in the index.
Indexed(name) ==
    /\ ~Unscannable(ScanSinglePackage(name))
    /\ LET reg == RegistrationOf(name)
       IN MapLen(reg.SupportedResources) + MapLen(reg.SupportedDataSources)
          + Len(reg.Resources) + Len(reg.DataSources) + Len(reg.EphemeralResources) > 0

RECURSIVE SumOver(_, _, _)
SumOver(Count(_), names, i) ==
    IF i > Len(names) THEN 0
    ELSE (IF Indexed(names[i]) THEN Count(RegistrationOf(names[i])) ELSE 0)
         + SumOver(Count, names, i + 1)

\* The statistics of a listing, counted from the listing alone.
ExpectedStatistics(names) ==
    LET One(reg)     == 1
        Legacy(reg)  == MapLen(reg.SupportedResources)
        Modern(reg)  == Len(reg.Resources)
        Eph(reg)     == Len(reg.EphemeralResources)
        Sources(reg) == MapLen(reg.SupportedDataSources) + Len(reg.DataSources)
    IN [ServiceCount       |-> SumOver(One, names, 1),
        TotalDataSources   |-> SumOver(Sources, names, 1),
        TotalResources     |-> SumOver(Legacy, names, 1) + SumOver(Modern, names, 1)
                               + SumOver(Eph, names, 1),
        LegacyResources    |-> SumOver(Legacy, names, 1),
        ModernResources    |-> SumOver(Modern, names, 1),
        EphemeralResources |-> SumOver(Eph, names, 1)]

\* The indexed registrations of a listing, in listing order.
RECURSIVE ExpectedServicesFrom(_, _)
ExpectedServicesFrom(names, i) ==
    IF i > Len(names) THEN << >>
    ELSE (IF Indexed(names[i]) THEN << RegistrationOf(names[i]) >> ELSE << >>)
         \o ExpectedServicesFrom(names, i + 1)

ExpectedServices(names) == ExpectedServicesFrom(names, 1)

\* C7: in every index the scan returns, Statistics.TotalResources is the sum
\* of LegacyResources, ModernResources and EphemeralResources.
C7_TotalIsSum ==
    ReturnedAnIndex =>
        LET st == ReturnedIndex.Statistics
        IN st.TotalResources = st.LegacyResources + st.ModernResources + st.EphemeralResources

\* A returned index that counts legacy, modern and ephemeral resources.
C7_Witness ==
    /\ ReturnedAnIndex
    /\ ReturnedIndex.Statistics.LegacyResources > 0
    /\ ReturnedIndex.Statistics.ModernResources > 0
    /\ ReturnedIndex.Statistics.EphemeralResources > 0

\* A scannable package in which no recognizer finds anything in any file.
NoFindings(name) ==
    LET scanned == ScanSinglePackage(name)
    IN /\ ~Unscannable(scanned)
       /\ \A i \in DOMAIN scanned.info.files :
             LET file == scanned.info.files[i]
             IN \/ file.nilAST
                \/ /\ extractSupportedResourcesMappings(file) = EmptyMap
                   /\ extractSupportedDataSourcesMappings(file) = EmptyMap
                   /\ extractResourcesStructTypes(file) = << >>
                   /\ extractDataSourcesStructTypes(file) = << >>
                   /\ extractEphemeralResourcesFunctions(file) = << >>

\* C8: a package in which the recognizers find nothing never reaches the
\* result channel, the collected list or the package list of a returned index.
C8_NoEmptyPackage ==
    \A name \in Range(dirEntries) :
        NoFindings(name) =>
            /\ \A i \in DOMAIN resultChan : resultChan[i].ServiceName # name
            /\ \A i \in DOMAIN services : services[i].ServiceName # name
            /\ ReturnedAnIndex =>
                  \A i \in DOMAIN ReturnedIndex.Services :
                      ReturnedIndex.Services[i].ServiceName # name

\* An index was returned for a listing holding a package without findings
\* next to a package that is indexed.
C8_Witness ==
    /\ ReturnedAnIndex
    /\ \E name \in Range(dirEntries) : NoFindings(name)
    /\ Len(ReturnedIndex.Services) > 0

\* C9: for a given listing, the Statistics of the returned index are those
\* counted from the listing, whatever order the registrations arrived in; the
\* package list holds the same registrations and only its order may differ.
C9_StatisticsOrderFree ==
    ReturnedAnIndex =>
        /\ ReturnedIndex.Statistics = ExpectedStatistics(dirEntries)
        /\ Len(ReturnedIndex.Services) = Len(ExpectedServices(dirEntries))
        /\ Range(ReturnedIndex.Services) = Range(ExpectedServices(dirEntries))

\* An index whose package list is not in listing order.
C9_Witness ==
    /\ ReturnedAnIndex
    /\ Len(ReturnedIndex.Services) > 1
    /\ ReturnedIndex.Services # ExpectedServices(dirEntries)

\* The progress reports made for a directory.
ReportsFor(name) ==
    { i \in DOMAIN events : events[i].Phase = "scanning" /\ events[i].Current = name }

\* C10: a package whose scan fails, yields nil or has no files is skipped
\* without failing the scan: once the listing succeeded the scan returns an
\* index and no error, the package is not in it, and when there is a callback
\* the package's progress report was made before it was skipped.
C10_SkipUnscannable ==
    /\ \A w \in Workers :
          (workerPc[w] = "process" /\ callback /\ Unscannable(WorkerScanned(w)))
              => ReportsFor(workerEntry[w]) # {}
    /\ (ScanReturned /\ ~readDirErr) =>
          /\ scanReturn[1].err = FALSE
          /\ scanReturn[1].index # << >>
          /\ \A name \in Range(dirEntries) :
                Unscannable(ScanSinglePackage(name)) =>
                    /\ callback => ReportsFor(name) # {}
                    /\ \A i \in DOMAIN ReturnedIndex.Services :
                          ReturnedIndex.Services[i].ServiceName # name

\* The scan returned, with a callback, for a listing that holds a package
\* whose scan failed and another unscannable one.
C10_Witness ==
    /\ ScanReturned /\ ~readDirErr /\ callback
    /\ "err" \in Range(dirEntries)
    /\ \E name \in Range(dirEntries) \ {"err"} : Unscannable(ScanSinglePackage(name))

\* --------------------------------------------------- claims on the emission
WriteReturned == writeReturn # << >>

WriteSucceeded == WriteReturned /\ writeReturn[1].err = << >>

EntityDirs == {"resources", "datasources", "ephemeral"}

\* The entity files on disk.
EntityFiles == { p \in DOMAIN fs : p[1] \in EntityDirs }

\* C1: once a write task of a pool has failed, no task still queued is
\* started; only the tasks already running go on.
C1_NoStartAfterFailure ==
    [][ failedOrder # << >> =>
            \A i \in DOMAIN taskState :
                taskState[i] = "queued" => taskState'[i] = "queued" ]_vars

\* C2 as stated: when a write task fails, WriteIndexFiles returns a non-nil
\* error, and that error is the one of the task that failed first.
C2_FirstFailedReturned ==
    (WriteReturned /\ failedOrder # << >>) =>
        /\ writeReturn[1].err # << >>
        /\ writeReturn[1].err[1].cause = << TaskError(tasks[failedOrder[1]]) >>

\* C2 as amended: when a write task fails, WriteIndexFiles returns a non-nil
\* error, and that error wraps the error of a failed task: the one whose error
\* was the first to be sent on the error channel.
C2_FirstSentReturned ==
    (WriteReturned /\ failedOrder # << >>) =>
        /\ writeReturn[1].err # << >>
        /\ sentOrder # << >>
        /\ sentOrder[1] \in Range(failedOrder)
        /\ writeReturn[1].err[1] =
               Wrap(PhaseMessage(writePhase), TaskError(tasks[sentOrder[1]]))

\* Two tasks failed and the error returned is the one of the second to fail.
C2_Witness ==
    /\ WriteReturned
    /\ Len(failedOrder) >= 2
    /\ sentOrder # << >>
    /\ sentOrder[1] # failedOrder[1]
    /\ writeReturn[1].err = << Wrap(PhaseMessage(writePhase), TaskError(tasks[sentOrder[1]])) >>

\* The identifier of a modern object: its resolved name, else its own name.
IdentifierOf(types, structType) ==
    IF structType \in DOMAIN types THEN types[structType] ELSE structType

\* <subdirectory, identifier.json> of every entity of the index.
EntityPaths ==
    UNION { LET service == index.Services[i]
            IN { << "resources", id \o ".json" >> : id \in DOMAIN service.SupportedResources }
               \cup { << "datasources", id \o ".json" >> : id \in DOMAIN service.SupportedDataSources }
               \cup { << "resources",
                         IdentifierOf(service.ResourceTerraformTypes, service.Resources[j]) \o ".json" >> :
                      j \in DOMAIN service.Resources }
               \cup { << "datasources",
                         IdentifierOf(service.DataSourceTerraformTypes, service.DataSources[j]) \o ".json" >> :
                      j \in DOMAIN service.DataSources }
               \cup { << "ephemeral",
                         IdentifierOf(service.EphemeralTerraformTypes, service.EphemeralResources[j]) \o ".json" >> :
                      j \in DOMAIN service.EphemeralResources }
          : i \in DOMAIN index.Services }

\* C3: after WriteIndexFiles returned nil, the three subdirectories hold
\* exactly one JSON file per entity of the index, named <identifier>.json.
C3_OneFilePerEntity ==
    WriteSucceeded =>
        /\ Cardinality(EntityFiles) = TotalFiles - 1
        /\ EntityFiles = EntityPaths

\* The identifiers a package registers both in its legacy resource table and,
\* resolved, in its modern resource list.
SharedResourceIds(service) ==
    { id \in DOMAIN service.SupportedResources :
        \E j \in DOMAIN service.Resources :
            MapGet(service.ResourceTerraformTypes, service.Resources[j]) = id }

\* C4: for an identifier registered both ways in one package, a successful
\* emission leaves both records on disk, one tagged legacy and one tagged
\* modern.
C4_BothRecordsKept ==
    WriteSucceeded =>
        \A i \in DOMAIN index.Services :
            \A id \in SharedResourceIds(index.Services[i]) :
                \A tag \in {"legacy_pluginsdk", "modern_sdk"} :
                    \E p \in EntityFiles :
                        /\ p[1] = "resources"
                        /\ fs[p]["terraform_type"] = id
                        /\ fs[p]["sdk_type"] = tag

\* The modern tasks of the running pool whose object name has no resolved
\* identifier and whose file has been written.
UnresolvedWritten ==
    { i \in DOMAIN tasks :
        /\ taskState[i] = "written"
        /\ tasks[i].structT # ""
        /\ LET svc == TaskService(tasks[i])
           IN tasks[i].structT \notin
                 DOMAIN (CASE tasks[i].kind = "modern resource" -> svc.ResourceTerraformTypes
                           [] tasks[i].kind = "modern data source" -> svc.DataSourceTerraformTypes
                           [] tasks[i].kind = "ephemeral resource" -> svc.EphemeralTerraformTypes) }

\* C5: the entity written for a modern object name without a resolved
\* identifier is the file <object name>.json, and the identifier field of its
\* record is the object name.
C5_FallbackToObjectName ==
    \A i \in UnresolvedWritten :
        LET p == << TaskDir(tasks[i]), tasks[i].structT \o ".json" >>
        IN /\ p \in DOMAIN fs
           /\ fs[p]["terraform_type"] = tasks[i].structT

\* The legacy resource tasks of the running pool whose registration function
\* sets only Create and Read and whose file has been written.
CreateReadOnlyWritten ==
    { i \in DOMAIN tasks :
        /\ taskState[i] = "written"
        /\ tasks[i].kind = "legacy resource"
        /\ tasks[i].tfType \in DOMAIN TaskService(tasks[i]).ResourceCRUDMethods
        /\ LET crud == TaskService(tasks[i]).ResourceCRUDMethods[tasks[i].tfType]
           IN /\ crud.CreateMethod # "" /\ crud.ReadMethod # ""
              /\ crud.UpdateMethod = "" /\ crud.DeleteMethod = "" }

\* A reference that is empty: left out of the document, or the empty string.
EmptyReference(doc, key) == key \notin DOMAIN doc \/ doc[key] = ""

\* C6: the record written for a legacy resource whose registration function
\* sets only Create and Read names those two functions in its create and read
\* references and has empty update and delete references.
C6_PartialCrudRecord ==
    \A i \in CreateReadOnlyWritten :
        LET crud == TaskService(tasks[i]).ResourceCRUDMethods[tasks[i].tfType]
            doc  == fs[<< "resources", tasks[i].tfType \o ".json" >>]
        IN /\ doc["create_index"] = "func." \o crud.CreateMethod \o ".goindex"
           /\ doc["read_index"] = "func." \o crud.ReadMethod \o ".goindex"
           /\ EmptyReference(doc, "update_index")
           /\ EmptyReference(doc, "delete_index")

\* ------------------------------------------- one package, analysed on its own
\* The bodies of the worker loop applied to a package built from one source
\* shape: legacy tables, tables spread over two files, one registration
\* function with one lifecycle field, or a modern list with its structs.
MaxElts == 2

RECURSIVE SeqsUpTo(_, _)
SeqsUpTo(S, n) ==
    IF n = 0 THEN { << >> }
    ELSE SeqsUpTo(S, n - 1)
         \cup { Append(s, x) : s \in { t \in SeqsUpTo(S, n - 1) : Len(t) = n - 1 }, x \in S }

\* The key/function pairs a table literal is written from, in source order.
TablePairs == SeqsUpTo({"x_a", "x_b"} \X {"makeF", "makeG"}, MaxElts)

ParseCases ==
    [family : {"table"}, lit : TablePairs]
    \cup [family : {"merge"}, lit : TablePairs, lit2 : TablePairs]
    \cup [family : {"crud"},
          op : {"Create", "Read", "Update", "Delete"},
          suffix : {"", "Context", "Func", "WithoutTimeout"},
          qualified : BOOLEAN, viaVar : BOOLEAN,
          returns : {"pluginsdk", "schema"}]
    \cup [family : {"types"},
          list : {"Resources", "DataSources", "EphemeralResources"},
          names : SeqsUpTo({"A", "B"}, MaxElts),
          body : {"x_a", "x_b", ""}]

TableOf(pairs) == Table([i \in 1..Len(pairs) |-> Entry(pairs[i][1], pairs[i][2])])

\* func (r Registration) <method>() map[string]*pluginsdk.Resource { return map...{...} }
DirectTableDecl(method, pairs) ==
    FuncDecl(method, <<Ident("Registration")>>, <<TableType>>,
             << ReturnStmt(<< TableOf(pairs) >>) >>)

\* func (r Registration) <method>() map[string]*pluginsdk.Resource { t := map...{...}; return t }
VariableTableDecl(method, pairs) ==
    FuncDecl(method, <<Ident("Registration")>>, <<TableType>>,
             << AssignStmt(<<Ident("t")>>, << TableOf(pairs) >>),
                ReturnStmt(<<Ident("t")>>) >>)

\* One file: the resource table returned directly, the same literal as the
\* data source table returned through a variable.
TablePackage(c) ==
    Scanned(FALSE, FALSE,
        << FileInfo("svc/table", FALSE,
               << DirectTableDecl("SupportedResources", c.lit),
                  VariableTableDecl("SupportedDataSources", c.lit) >>) >>,
        << >>)

\* Two files of one package, each with both tables.
MergePackage(c) ==
    Scanned(FALSE, FALSE,
        << FileInfo("svc/merge", FALSE,
               << DirectTableDecl("SupportedResources", c.lit),
                  VariableTableDecl("SupportedDataSources", c.lit) >>),
           FileInfo("svc/merge", FALSE,
               << DirectTableDecl("SupportedResources", c.lit2),
                  VariableTableDecl("SupportedDataSources", c.lit2) >>) >>,
        << >>)

\* func makeF() with one lifecycle field, the literal returned directly or
\* through a variable, registered as x_a in both tables; makeF is declared
\* to return *pluginsdk.Resource or *schema.Resource.
CrudPackage(c) ==
    LET value == IF c.qualified THEN Selector("impl", "doIt") ELSE Ident("doIt")
        type  == Selector(c.returns, "Resource")
        lit   == AddrOf(CompositeLit(type, << Field(c.op \o c.suffix, value) >>))
        makeF == FuncDecl("makeF", << >>, <<Star(type)>>,
                     IF c.viaVar
                     THEN << AssignStmt(<<Ident("r")>>, <<lit>>), ReturnStmt(<<Ident("r")>>) >>
                     ELSE << ReturnStmt(<<lit>>) >>)
    IN Scanned(FALSE, FALSE,
        << FileInfo("svc/crud", FALSE,
               << DirectTableDecl("SupportedResources", << <<"x_a", "makeF">> >>),
                  DirectTableDecl("SupportedDataSources", << <<"x_a", "makeF">> >>),
                  makeF >>) >>,
        << FunctionInfo("makeF", <<makeF>>) >>)

\* A modern list over the names A and B; A's lifecycle method has a value
\* receiver, B's a pointer receiver, and both have the same body.
TypesPackage(c) ==
    LET element(n) == IF c.list = "EphemeralResources" THEN Ident(n)
                      ELSE CompositeLit(Ident(n), << >>)
        method     == IF c.list = "EphemeralResources" THEN "Metadata" ELSE "ResourceType"
        result     == IF c.body = "" THEN Ident("name") ELSE StringLit(c.body)
        body       == IF c.list = "EphemeralResources"
                      THEN << AssignStmt(<<Selector("resp", "TypeName")>>, <<result>>) >>
                      ELSE << ReturnStmt(<<result>>) >>
    IN Scanned(FALSE, FALSE,
        << FileInfo("svc/types", FALSE,
               << FuncDecl(c.list, <<Ident("Registration")>>, <<ListType>>,
                      << ReturnStmt(<< CompositeLit(ListType,
                             [i \in 1..Len(c.names) |-> element(c.names[i])]) >>) >>),
                  FuncDecl(method, <<Ident("A")>>, <<Ident("string")>>, body),
                  FuncDecl(method, <<Star(Ident("B"))>>, <<Ident("string")>>, body) >>) >>,
        << >>)

ParsePackage(c) ==
    CASE c.family = "table" -> TablePackage(c)
      [] c.family = "merge" -> MergePackage(c)
      [] c.family = "crud"  -> CrudPackage(c)
      [] c.family = "types" -> TypesPackage(c)

ParseInit ==
    /\ parseCase \in ParseCases
    /\ parsePc = "merge"
    /\ parseReg = << >>
    /\ numCPU = 1
    /\ callback = FALSE
    /\ completedItems = 0
    /\ events = << >>
    /\ readDirErr = FALSE
    /\ dirEntries = << >>
    /\ scanPc = "idle"
    /\ spawned = 0
    /\ entryChan = << >>
    /\ resultChan = << >>
    /\ resultClosed = FALSE
    /\ wg = 0
    /\ closer = "idle"
    /\ workerPc = [w \in Workers |-> "idle"]
    /\ workerEntry = [w \in Workers |-> ""]
    /\ workerCompleted = [w \in Workers |-> 0]
    /\ services = << >>
    /\ stats = ZeroStatistics
    /\ scanReturn = << >>
    /\ EmitIdle

\* The loop over the package's files.
ParseMergeFiles ==
    /\ parsePc = "merge"
    /\ LET packageInfo == ParsePackage(parseCase).info
       IN parseReg' = << MergeFiles(packageInfo.files, 1,
                                    newServiceRegistration(packageInfo, "svc")) >>
    /\ parsePc' = "types"
    /\ UNCHANGED << parseCase, envVars, progressVars, scanVars, emitVars >>

\* The three type maps, from the merged lists.
ParseResolveTypes ==
    /\ parsePc = "types"
    /\ LET packageInfo == ParsePackage(parseCase).info
           serviceReg  == parseReg[1]
       IN parseReg' = << [serviceReg EXCEPT
              !.ResourceTerraformTypes   =
                  extractResourceTerraformTypes(packageInfo, serviceReg.Resources),
              !.DataSourceTerraformTypes =
                  extractDataSourceTerraformTypes(packageInfo, serviceReg.DataSources),
              !.EphemeralTerraformTypes  =
                  extractEphemeralTerraformTypes(packageInfo, serviceReg.EphemeralResources)] >>
    /\ parsePc' = "methods"
    /\ UNCHANGED << parseCase, envVars, progressVars, scanVars, emitVars >>

\* The two lifecycle-method maps, from the merged tables.
ParseResolveMethods ==
    /\ parsePc = "methods"
    /\ LET packageInfo == ParsePackage(parseCase).info
           serviceReg  == parseReg[1]
       IN parseReg' = << [serviceReg EXCEPT
              !.ResourceCRUDMethods =
                  ResolveMethods(extractCRUDFromPackage,
                                 serviceReg.SupportedResources, packageInfo),
              !.DataSourceMethods   =
                  ResolveMethods(extractDataSourceMethodsFromPackage,
                                 serviceReg.SupportedDataSources, packageInfo)] >>
    /\ parsePc' = "done"
    /\ UNCHANGED << parseCase, envVars, progressVars, scanVars, emitVars >>

ParseNext ==
    \/ ParseMergeFiles
    \/ ParseResolveTypes
    \/ ParseResolveMethods

ParseSpec == ParseInit /\ [][ParseNext]_vars

\* The registration of the package under analysis, once it is complete.
ParseDone == parsePc = "done"
Parsed == parseReg[1]

\* ------------------------------------------------ claims C11 and following
\* C11: when the scan has returned, no scan worker is still running: every
\* worker that was started has left its loop and called Done.
C11_NoWorkerAtReturn ==
    ScanReturned =>
        /\ wg = 0
        /\ \A w \in Workers : workerPc[w] \in {"idle", "done"}

\* An index was returned by a scan that had started two workers.
C11_Witness ==
    /\ ReturnedAnIndex
    /\ spawned >= 2
    /\ \A w \in 1..spawned : workerPc[w] = "done"

\* The external identifiers of one modern category, entry by entry: the
\* resolved identifier, or the object name when it did not resolve.
ListIdentifiers(list, terraformTypes) ==
    [i \in 1..Len(list) |->
        IF list[i] \in DOMAIN terraformTypes THEN terraformTypes[list[i]] ELSE list[i]]

NoRepeat(s) == \A i, j \in 1..Len(s) : i # j => s[i] # s[j]

\* C12: in a complete registration no external identifier occurs more than
\* once in a category. The two legacy tables are maps keyed by identifier;
\* the statement is about the three modern lists and their identifiers.
C12_IdentifiersUnique ==
    ParseDone =>
        /\ NoRepeat(ListIdentifiers(Parsed.Resources, Parsed.ResourceTerraformTypes))
        /\ NoRepeat(ListIdentifiers(Parsed.DataSources, Parsed.DataSourceTerraformTypes))
        /\ NoRepeat(ListIdentifiers(Parsed.EphemeralResources, Parsed.EphemeralTerraformTypes))

\* The keys of a literal, and the function of the last pair written with key k.
KeysOf(pairs) == { pairs[i][1] : i \in 1..Len(pairs) }

LastValue(pairs, k) ==
    LET last == CHOOSE i \in 1..Len(pairs) :
                    /\ pairs[i][1] = k
                    /\ \A j \in (i + 1)..Len(pairs) : pairs[j][1] # k
    IN pairs[last][2]

\* C13: the table read from a method that returns the literal directly
\* (SupportedResources) equals the table read from a method that assigns the
\* same literal to a variable and returns the variable (SupportedDataSources).
C13_DirectEqualsVariable ==
    (parseCase.family = "table" /\ parsePc # "merge") =>
        Parsed.SupportedResources = Parsed.SupportedDataSources

\* Both forms of a literal with two different keys were read.
C13_Witness ==
    /\ parseCase.family = "table"
    /\ ParseDone
    /\ Cardinality(KeysOf(parseCase.lit)) = 2
    /\ DOMAIN Parsed.SupportedDataSources = {"x_a", "x_b"}

\* C14: the table read from one literal holds, for every key written in it,
\* the function of the key's last occurrence.
C14_LastOccurrenceWins ==
    (parseCase.family = "table" /\ parsePc # "merge") =>
        /\ DOMAIN Parsed.SupportedResources = KeysOf(parseCase.lit)
        /\ \A k \in KeysOf(parseCase.lit) :
              Parsed.SupportedResources[k] = LastValue(parseCase.lit, k)

\* The literal wrote x_a twice with different functions.
C14_Witness ==
    /\ parseCase.family = "table"
    /\ ParseDone
    /\ parseCase.lit = << <<"x_a", "makeF">>, <<"x_a", "makeG">> >>
    /\ Parsed.SupportedResources["x_a"] = "makeG"

\* C15: after the file loop over two files, a key written in the later file
\* maps to the later file's function, and a key written in one file only
\* keeps that file's function.
C15_LaterFileWins ==
    (parseCase.family = "merge" /\ parsePc # "merge") =>
        /\ DOMAIN Parsed.SupportedResources = KeysOf(parseCase.lit) \cup KeysOf(parseCase.lit2)
        /\ \A k \in KeysOf(parseCase.lit2) :
              Parsed.SupportedResources[k] = LastValue(parseCase.lit2, k)
        /\ \A k \in KeysOf(parseCase.lit) \ KeysOf(parseCase.lit2) :
              Parsed.SupportedResources[k] = LastValue(parseCase.lit, k)

\* Both files wrote x_a, with different functions, and only the first wrote x_b.
C15_Witness ==
    /\ parseCase.family = "merge"
    /\ ParseDone
    /\ parseCase.lit = << <<"x_a", "makeF">>, <<"x_b", "makeF">> >>
    /\ parseCase.lit2 = << <<"x_a", "makeG">> >>
    /\ Parsed.SupportedResources = [k \in {"x_a", "x_b"} |-> IF k = "x_a" THEN "makeG" ELSE "makeF"]

\* The lifecycle record that names doIt for one operation and nothing else.
OnlyOperation(op) ==
    [CreateMethod |-> IF op = "Create" THEN "doIt" ELSE "",
     ReadMethod   |-> IF op = "Read"   THEN "doIt" ELSE "",
     UpdateMethod |-> IF op = "Update" THEN "doIt" ELSE "",
     DeleteMethod |-> IF op = "Delete" THEN "doIt" ELSE ""]

\* C16: whichever of the four spellings of an operation's field the
\* configuration literal uses, and whether its value is doIt or impl.doIt,
\* the record of the registered resource names doIt for that operation.
C16_AllSpellingsAccepted ==
    (parseCase.family = "crud" /\ ParseDone) =>
        /\ "x_a" \in DOMAIN Parsed.ResourceCRUDMethods
        /\ Parsed.ResourceCRUDMethods["x_a"] = OnlyOperation(parseCase.op)

\* UpdateWithoutTimeout: impl.doIt was read as doIt.
C16_Witness ==
    /\ parseCase.family = "crud"
    /\ ParseDone
    /\ parseCase.op = "Update"
    /\ parseCase.suffix = "WithoutTimeout"
    /\ parseCase.qualified
    /\ Parsed.ResourceCRUDMethods["x_a"].UpdateMethod = "doIt"

\* The type map of the category the case's list belongs to.
CaseTypes ==
    CASE parseCase.list = "Resources"          -> Parsed.ResourceTerraformTypes
      [] parseCase.list = "DataSources"        -> Parsed.DataSourceTerraformTypes
      [] parseCase.list = "EphemeralResources" -> Parsed.EphemeralTerraformTypes

\* C17: A declares its lifecycle method with a value receiver, B with a
\* pointer receiver and the same body; once the types are resolved, every
\* listed name has the identifier the body yields, so A and B have the same.
C17_ReceiverKindIrrelevant ==
    (parseCase.family = "types" /\ parsePc \in {"methods", "done"}) =>
        /\ \A i \in 1..Len(parseCase.names) :
              MapGet(CaseTypes, parseCase.names[i]) = parseCase.body
        /\ DOMAIN CaseTypes =
              IF parseCase.body = "" THEN {}
              ELSE { parseCase.names[i] : i \in 1..Len(parseCase.names) }

\* A and B were both listed and both resolved to x_a.
C17_Witness ==
    /\ parseCase.family = "types"
    /\ ParseDone
    /\ parseCase.names = <<"A", "B">>
    /\ parseCase.body = "x_a"
    /\ "A" \in DOMAIN CaseTypes
    /\ "B" \in DOMAIN CaseTypes
    /\ CaseTypes["A"] = CaseTypes["B"]

\* A per-entity write task has been taken from the queue by a pool worker.
TaskStarted == \E i \in DOMAIN taskState : taskState[i] # "queued"

\* C18: whenever a per-entity task has been started, or an entity file is on
\* disk, the summary document of the index is on disk.
C18_SummaryBeforeTasks ==
    (TaskStarted \/ EntityFiles # {}) =>
        /\ MainIndexPath \in DOMAIN fs
        /\ fs[MainIndexPath] = index

\* A task is running, after the summary was written.
C18_Witness ==
    /\ \E i \in DOMAIN taskState : taskState[i] = "running"
    /\ MainIndexPath \in DOMAIN fs

\* ------------------------------------------------- either call, on its own
\* A run of the program is one call of ScanTerraformProviderServices or one
\* call of WriteIndexFiles on a built index, with or without a callback.
RunInit == ScanInit \/ EmitInit

RunNext == ScanNext \/ EmitNext

RunSpec == RunInit /\ [][RunNext]_vars

\* The run is a scan (the emission never leaves its idle state in it).
ScanRun == writePc = "idle"

\* A pool worker is inside a closure that panics.
PanickingTask ==
    \E w \in Workers :
        /\ cbWorkerPc[w] = "run"
        /\ cbWorkerTask[w] # 0
        /\ TaskPanics(tasks[cbWorkerTask[w]])

SameBag(s, t) ==
    /\ Len(s) = Len(t)
    /\ \A x \in Range(s) \cup Range(t) :
          Cardinality({ i \in DOMAIN s : s[i] = x }) = Cardinality({ i \in DOMAIN t : t[i] = x })

\* C19: what a call returns and leaves on disk is fixed by its inputs other
\* than the callback. A scan fails exactly when the listing fails and else
\* returns the registrations and statistics of the listing; WriteIndexFiles
\* fails exactly when a write failed and else leaves the summary and one file
\* per entity path; the process stops only in a closure that panics by
\* itself; and without a callback nothing is reported or counted.
C19_NilCallbackNoOp ==
    /\ ~callback => (events = << >> /\ completedItems = 0)
    /\ crashed => PanickingTask
    /\ (ScanRun /\ ScanReturned) =>
          /\ scanReturn[1].err = readDirErr
          /\ ReturnedAnIndex = ~readDirErr
          /\ ReturnedAnIndex =>
                /\ ReturnedIndex.Statistics = ExpectedStatistics(dirEntries)
                /\ SameBag(ReturnedIndex.Services, ExpectedServices(dirEntries))
    /\ WriteReturned =>
          /\ (writeReturn[1].err # << >>) = (failures > 0)
          /\ WriteSucceeded =>
                /\ DOMAIN fs = {MainIndexPath} \cup EntityPaths
                /\ fs[MainIndexPath] = index

\* Without a callback, a scan returned an index of two packages; or
\* WriteIndexFiles returned nil with entity files on disk.
C19_Witness ==
    /\ ~callback
    /\ \/ ScanRun /\ ReturnedAnIndex /\ Len(ReturnedIndex.Services) = 2
       \/ WriteSucceeded /\ EntityFiles # {}

\* A call made with a callback has returned successfully.
SuccessfulWithCallback ==
    /\ callback
    /\ \/ ScanRun /\ ReturnedAnIndex
       \/ WriteSucceeded

\* C20: after a successful call made with a callback, the first event the
\* callback received is the initial one (nothing completed, 0 percent), the
\* last is the completion event (100 percent, "Completed"), and no event
\* before the last is a completion event.
C20_InitialFirstCompletionLast ==
    SuccessfulWithCallback =>
        /\ events # << >>
        /\ events[1].Current = "Initializing..."
        /\ events[1].Completed = 0
        /\ events[1].Percentage = 0
        /\ events[Len(events)].Current = "Completed"
        /\ events[Len(events)].Percentage = 100
        /\ \A i \in 1..(Len(events) - 1) : events[i].Current # "Completed"

\* C21: a registration function that is not declared to return
\* *pluginsdk.Resource gets no lifecycle record.
C21_OnlyResourceFunctions ==
    (parseCase.family = "crud" /\ ParseDone /\ parseCase.returns # "pluginsdk") =>
        "x_a" \notin DOMAIN Parsed.ResourceCRUDMethods

\* The workers that hold a given package directory.
Holders(name) == { w \in Workers : workerEntry[w] = name }

\* C22: a package directory is held by at most one worker at a time, and a
\* registration enters the result channel only in a step of the one worker
\* that holds its package, which then lets go of it.
C22_OneWorkerPerRegistration ==
    /\ [](\A w1, w2 \in Workers :
            (w1 # w2 /\ workerEntry[w1] # "") => workerEntry[w1] # workerEntry[w2])
    /\ [][ Len(resultChan') > Len(resultChan) =>
             LET name == resultChan'[Len(resultChan')].ServiceName
             IN /\ Cardinality(Holders(name)) = 1
                /\ \A w \in Holders(name) :
                      /\ workerPc[w] = "process"
                      /\ workerEntry'[w] = ""
                      /\ \A v \in Workers \ {w} :
                            workerPc'[v] = workerPc[v] /\ workerEntry'[v] = workerEntry[v] ]_vars

\* Two workers are building the registrations of two scannable packages.
C22_Witness ==
    /\ \E w1, w2 \in Workers :
          /\ w1 # w2
          /\ workerPc[w1] = "process" /\ workerPc[w2] = "process"
          /\ ~Unscannable(WorkerScanned(w1)) /\ ~Unscannable(WorkerScanned(w2))

\* C23: no channel ever holds more than its buffer: every send of either
\* pipeline (filling a work queue, pushing a registration, pushing an error)
\* found a free slot.
C23_SendsNeverBlock ==
    /\ Len(entryChan) <= EntryChanCap
    /\ Len(resultChan) <= ResultChanCap
    /\ Len(callbackChan) <= CallbackChanCap
    /\ Len(errorChan) <= ErrorChanCap

\* The result channel is full: both packages were pushed before the
\* collecting loop took any.
C23_Witness ==
    /\ Len(dirEntries) = 2
    /\ Len(resultChan) = ResultChanCap

\* C24: once WriteIndexFiles has returned, with an error or without, no step
\* creates or replaces a file: no pool worker is still writing.
C24_NoWriteAfterReturn ==
    [][WriteReturned => fs' = fs]_vars

\* The entries of the returned package list that carry a given directory name.
ReturnedFor(name) ==
    { i \in DOMAIN ReturnedIndex.Services : ReturnedIndex.Services[i].ServiceName = name }

\* C25: the returned package list holds, for every directory of the listing,
\* exactly one entry when the directory yields a finding, and that entry is
\* the directory's registration; it holds no entry for any other directory
\* and nothing else.
C25_OneRegistrationPerPackage ==
    ReturnedAnIndex =>
        /\ \A i \in DOMAIN dirEntries :
              LET name == dirEntries[i]
              IN IF Indexed(name)
                 THEN /\ Cardinality(ReturnedFor(name)) = 1
                      /\ \A j \in ReturnedFor(name) :
                            ReturnedIndex.Services[j] = RegistrationOf(name)
                 ELSE ReturnedFor(name) = {}
        /\ \A j \in DOMAIN ReturnedIndex.Services :
              ReturnedIndex.Services[j].ServiceName \in Range(dirEntries)

\* Two workers shared a listing of two directories of which one is indexed.
C25_Witness ==
    /\ ReturnedAnIndex
    /\ spawned = 2
    /\ Len(dirEntries) = 2
    /\ Len(ReturnedIndex.Services) = 1

\* The task is a legacy data source whose registration function resolved to
\* no lifecycle-method entry.
UnresolvedDataSource(t) ==
    /\ t.kind = "legacy data source"
    /\ t.tfType \notin DOMAIN TaskService(t).DataSourceMethods

\* C26: a worker running the task of such a data source never brings the
\* process down, and once the task is done its file is on disk without a
\* read reference.
C26_UnresolvedDataSourceEmitted ==
    /\ \A w \in Workers :
          (cbWorkerTask[w] # 0 /\ UnresolvedDataSource(tasks[cbWorkerTask[w]])) => ~crashed
    /\ \A i \in DOMAIN tasks :
          (UnresolvedDataSource(tasks[i]) /\ taskState[i] = "written") =>
              /\ TaskPath(tasks[i]) \in DOMAIN fs
              /\ "read_index" \notin DOMAIN fs[TaskPath(tasks[i])]

\* The per-item events among the events delivered so far, in delivery order.
ItemEvents ==
    SelectSeq(events, LAMBDA e : e.Current \notin {"Initializing...", "Completed"})

\* C27: the Completed values of the per-item events are strictly increasing
\* in the order in which the callback received them.
C27_CompletedNeverGoesBack ==
    \A i, j \in DOMAIN ItemEvents :
        i < j => ItemEvents[i].Completed < ItemEvents[j].Completed

\* The number of items of the call: the directories of a scan, the summary
\* and the entity write tasks of an emission.
ItemsOfRun ==
    IF ScanRun THEN Len(dirEntries) ELSE 1 + TotalFilesFrom(index.Services, 1)

\* C28: no per-item event ever carries a Completed above its Total, and after
\* a successful call made with a callback the per-item events carry the
\* values 1 .. Total, each exactly once, Total being the number of items.
C28_CompletedCountsItems ==
    /\ \A i \in DOMAIN ItemEvents : ItemEvents[i].Completed <= ItemEvents[i].Total
    /\ SuccessfulWithCallback =>
          /\ Len(ItemEvents) = ItemsOfRun
          /\ { ItemEvents[i].Completed : i \in DOMAIN ItemEvents } = 1..ItemsOfRun
          /\ \A i \in DOMAIN ItemEvents : ItemEvents[i].Total = ItemsOfRun

\* WriteIndexFiles returned nil after reporting the summary and at least two
\* entity files; or a scan returned after reporting two directories.
C28_Witness ==
    /\ SuccessfulWithCallback
    /\ Len(ItemEvents) >= 2
    /\ ScanRun \/ Len(ItemEvents) >= 3

\* C29: every scan returns; the result channel is closed only when every
\* started worker has left its loop and called Done, and once closed it stays
\* closed (it is not closed a second time).
C29_ScanTerminates ==
    /\ <>ScanReturned
    /\ [](resultClosed => (wg = 0 /\ \A w \in 1..spawned : workerPc[w] = "done"))
    /\ [][resultClosed => (resultClosed' /\ closer' = "done")]_vars

\* A scan of two directories on a pool of one worker has returned.
C29_Witness ==
    /\ ScanReturned
    /\ resultClosed
    /\ closer = "done"
    /\ Len(dirEntries) = 2
    /\ numCPU = 1

\* Every started worker of the pool has returned and errorChan is closed.
PoolWoundDown ==
    /\ errorClosed
    /\ \A w \in 1..cbSpawned : cbWorkerPc[w] = "done"

\* C30: once a pool is started, each of its workers exits and the error
\* channel gets closed, also when the caller has returned the first error;
\* the channel is closed only by the closer, after the last worker is done.
C30_PoolWindsDown ==
    /\ (cbSpawned > 0) ~> PoolWoundDown
    /\ [](errorClosed => (cbWg = 0 /\ cbCloser = "done"))
====
